---------------------------- MODULE Spec2Model ----------------------------
(***************************************************************************)
(* Model of the text segmentation engine of RAG_Python_Service             *)
(* (app/utils/chunking.py): the normalizer clean_text, the classifier      *)
(* detect_section_type, the semantic chunker chunk_by_semantic_sections    *)
(* and the sliding-window fallback of chunk_text.                          *)
(*                                                                         *)
(* A Python str is modelled as a sequence of characters.  A character is a *)
(* one-character string; the non-ASCII characters the code names are the   *)
(* tokens "EN_DASH" and "BOX_H", "BOX_V", "BOX_DR", "BOX_DL", "BOX_UR",    *)
(* "BOX_UL" (U+2500, U+2502, U+250C, U+2510, U+2514, U+2518).  Positions   *)
(* are 1-based; position Len(s)+1 is the end of the text.                  *)
(***************************************************************************)
EXTENDS Integers, Sequences, FiniteSets, TLC

VARIABLES
    op,                     \* the function called: "semantic", "fallback", "classify",
                            \* "extract", "enrich", "clean" and, for the second
                            \* definitions, "semantic_2" and "chunk_text" (the
                            \* latter with use_semantic=True); "concurrent" for
                            \* invocations in progress at the same time; "chat"
                            \* for ChatService.answer_question, "ingest" for a
                            \* POST /ingest, "health" for a GET /
    raw_text,               \* the argument text as the caller passed it
    text,                   \* the name text of the callee (normalized by line 132 / 247)
    min_chunk_size,         \* parameter of chunk_by_semantic_sections
    max_chunk_size,         \* parameter of chunk_by_semantic_sections
    chunk_size,             \* parameter of chunk_text (window width)
    overlap,                \* parameter of chunk_text
    pc,                     \* position of the call: "call", "loop", "again", "done";
                            \* in answer_question also "filtered", "context",
                            \* "generated" and "raised" (an exception left the call);
                            \* in ingest_syllabus the step to run next: "fetch",
                            \* "extract", "chunk", "embed", "upsert"; in
                            \* health_check "pinecone", "openai", "status"
    sections,               \* local: the result of re.split
    i,                      \* local: index of the next segment of the walk (1-based)
    current_chunk,          \* local: the accumulator
    current_section_header, \* local: the header in force
    chunk_count,            \* local: chunk_count / chunk_num counter
    chunks,                 \* local, then the return value: the list of chunk dicts
                            \* (for "enrich": the chunk dict given and returned)
    start,                  \* local of the fallback loop
    text_length,            \* local of the fallback loop
    window_starts,          \* history: the value of start at each iteration so far
    label,                  \* return value of detect_section_type ("" before the call)
    info,                   \* return value of extract_subject_info (<<>> before the call)
    first_pass,             \* the return value of the first of two clean_text calls
    calls,                  \* "concurrent": the parameters and locals of each of the
                            \* invocations of chunk_by_semantic_sections in progress
    matches,                \* "chat": local of answer_question, what the query returned
    filtered_matches,       \* "chat": local of answer_question
    sources,                \* "chat": local, then the "sources" of the returned dict
    confidence,             \* "chat": the "confidence" of the returned dict
    answer,                 \* "chat": the "answer" of the returned dict
    llm_calls,              \* "chat" history: calls of client.chat.completions.create
    authorization,          \* "ingest": the Authorization header, <<>> when absent
                            \* and <<v>> for the value v
    request,                \* "ingest": the AdminIngestRequest (dept and year)
    steps,                  \* "ingest" history: the steps of the pipeline run so
                            \* far, each with whether it returned (ok) or raised
    metadata_list,          \* "ingest": local of ingest_syllabus
    upserted,               \* "ingest": the vectors given to index.upsert
    response,               \* "ingest": the IngestResponse; "health": the
                            \* HealthResponse (<<>> before there is one)
    status_code,            \* "ingest", "health": HTTP status of the answer, 0 before
    pinecone_up,            \* "health": the vector store can be reached
    openai_up,              \* "health": the embedding API can be reached
    pinecone_svc,           \* "health": the instance get_pinecone_service() has
                            \* cached: "none", or its flag "connected" or
                            \* "not_connected"
    embedding_svc,          \* "health": the same for get_embedding_service()
    pinecone_ok,            \* "health": local of health_check
    openai_ok               \* "health": local of health_check

\* the parameters, locals and return values of one call of a function of
\* app/utils
utilsOthers == <<raw_text, text, min_chunk_size, max_chunk_size, chunk_size, overlap,
                 sections, i, current_chunk, current_section_header, chunk_count,
                 start, text_length, window_starts, label, info, first_pass>>

utilsLocals == <<chunks, utilsOthers>>

utilsVars == <<op, pc, utilsLocals>>

\* the locals and the returned dict of ChatService.answer_question
chatVars == <<matches, filtered_matches, sources, confidence, answer, llm_calls>>

\* the request and the locals of ingest_syllabus (with chunks and pc)
ingestVars == <<authorization, request, steps, metadata_list, upserted>>

\* the HTTP answer of ingest_syllabus and of health_check
answerVars == <<response, status_code>>

\* the collaborators and the locals of health_check
healthVars == <<pinecone_up, openai_up, pinecone_svc, embedding_svc, pinecone_ok,
                openai_ok>>

\* the variables of the invocations in progress and of the services
serviceVars == <<calls, chatVars, ingestVars, answerVars, healthVars>>

vars == <<utilsVars, serviceVars>>

---------------------------------------------------------------------------
(* Characters and character classes of Python's re and str.                *)

Digits == {"0", "1", "2", "3", "4", "5", "6", "7", "8", "9"}

UpperToLower ==
    [c \in {"A","B","C","D","E","F","G","H","I","J","K","L","M",
            "N","O","P","Q","R","S","T","U","V","W","X","Y","Z"} |->
        CASE c = "A" -> "a" [] c = "B" -> "b" [] c = "C" -> "c" [] c = "D" -> "d"
          [] c = "E" -> "e" [] c = "F" -> "f" [] c = "G" -> "g" [] c = "H" -> "h"
          [] c = "I" -> "i" [] c = "J" -> "j" [] c = "K" -> "k" [] c = "L" -> "l"
          [] c = "M" -> "m" [] c = "N" -> "n" [] c = "O" -> "o" [] c = "P" -> "p"
          [] c = "Q" -> "q" [] c = "R" -> "r" [] c = "S" -> "s" [] c = "T" -> "t"
          [] c = "U" -> "u" [] c = "V" -> "v" [] c = "W" -> "w" [] c = "X" -> "x"
          [] c = "Y" -> "y" [] c = "Z" -> "z"]

Uppers == DOMAIN UpperToLower

Lowers == {UpperToLower[c] : c \in Uppers}

\* \s of re on str, and the characters str.strip() removes
IsSpace(c) == c \in {" ", "\t", "\n", "\r", "\f"}

IsDigit(c) == c \in Digits

IsUpper(c) == c \in Uppers

IsLower(c) == c \in Lowers

\* [-–]
IsDash(c) == c \in {"-", "EN_DASH"}

\* [ \t]
IsBlank(c) == c \in {" ", "\t"}

\* [IVX]
IsRoman(c) == c \in {"I", "V", "X"}

\* [.)]
IsDotParen(c) == c \in {".", ")"}

\* the character at position p, "EOF" outside the text
Ch(s, p) == IF p >= 1 /\ p <= Len(s) THEN s[p] ELSE "EOF"

\* str.lower()
Lower(s) == [k \in 1..Len(s) |-> IF s[k] \in Uppers THEN UpperToLower[s[k]] ELSE s[k]]

MinOf(S) == CHOOSE m \in S : \A y \in S : m <= y

MaxOf(S) == CHOOSE m \in S : \A y \in S : y <= m

\* greedy \s* from p: the position after the run
RECURSIVE SkipSpace(_, _)
SkipSpace(s, p) == IF IsSpace(Ch(s, p)) THEN SkipSpace(s, p + 1) ELSE p

\* greedy \d* from p
RECURSIVE SkipDigits(_, _)
SkipDigits(s, p) == IF IsDigit(Ch(s, p)) THEN SkipDigits(s, p + 1) ELSE p

\* greedy [IVX]* from p
RECURSIVE SkipRoman(_, _)
SkipRoman(s, p) == IF IsRoman(Ch(s, p)) THEN SkipRoman(s, p + 1) ELSE p

\* greedy [a-z]* from p
RECURSIVE SkipLower(_, _)
SkipLower(s, p) == IF IsLower(Ch(s, p)) THEN SkipLower(s, p + 1) ELSE p

\* the whitespace run that ends just before p, walked backwards
RECURSIVE SkipSpaceBack(_, _)
SkipSpaceBack(s, p) == IF IsSpace(Ch(s, p)) THEN SkipSpaceBack(s, p - 1) ELSE p

\* ^ under re.MULTILINE
IsLineStart(s, p) == p = 1 \/ Ch(s, p - 1) = "\n"

\* $ under re.MULTILINE
IsLineEnd(s, p) == p = Len(s) + 1 \/ Ch(s, p) = "\n"

\* the position of the first "\n" at or after p, Len(s)+1 when there is none
LineEnd(s, p) ==
    LET N == {q \in p..Len(s) : s[q] = "\n"}
    IN  IF N = {} THEN Len(s) + 1 ELSE MinOf(N)

\* the last position e in lo..hi where $ matches, 0 when there is none
\* (a greedy \s* followed by $ backs off to it)
LastLineEnd(s, lo, hi) ==
    LET E == {e \in lo..hi : IsLineEnd(s, e)}
    IN  IF E = {} THEN 0 ELSE MaxOf(E)

\* s[p:] starts with the literal w
StartsWithAt(s, p, w) ==
    /\ p >= 1
    /\ p + Len(w) - 1 <= Len(s)
    /\ \A k \in 1..Len(w) : s[p + k - 1] = w[k]

\* w in s
Contains(s, w) == \E p \in 1..(Len(s) - Len(w) + 1) : StartsWithAt(s, p, w)

\* s[a:b] for 1-based a and exclusive 1-based b
Slice(s, a, b) == SubSeq(s, a, b - 1)

\* str.strip()
Strip(s) ==
    LET a == SkipSpace(s, 1)
        b == SkipSpaceBack(s, Len(s))
    IN  IF a > Len(s) THEN <<>> ELSE SubSeq(s, a, b)

---------------------------------------------------------------------------
(* clean_text                                                              *)

\* the end of the match of ^[-–]?\s*\d+\s*[-–]?\s*$ at p, 0 when there is none
PageNumberEnd(s, p) ==
    LET q1 == IF IsDash(Ch(s, p)) THEN p + 1 ELSE p
        q2 == SkipSpace(s, q1)
        q3 == SkipDigits(s, q2)
        q4 == SkipSpace(s, q3)
        q6 == SkipSpace(s, q4 + 1)
        viaDash == IF IsDash(Ch(s, q4)) THEN LastLineEnd(s, q4 + 1, q6) ELSE 0
    IN  IF ~IsLineStart(s, p) \/ q3 = q2 THEN 0
        ELSE IF viaDash # 0 THEN viaDash
        ELSE LastLineEnd(s, q3, q4)

\* re.sub(r'^[-–]?\s*\d+\s*[-–]?\s*$', '', text, flags=re.MULTILINE), from p on
RECURSIVE RemovePageNumbers(_, _)
RemovePageNumbers(s, p) ==
    IF p > Len(s) THEN <<>>
    ELSE LET e == PageNumberEnd(s, p)
             n == LineEnd(s, p)
         IN  IF e # 0 THEN RemovePageNumbers(s, e)
             ELSE IF n > Len(s) THEN SubSeq(s, p, Len(s))
             ELSE SubSeq(s, p, n) \o RemovePageNumbers(s, n + 1)

\* the end of the match of ^\s*Page\s+\d+\s*$ (IGNORECASE) at p, 0 when none
PageLabelEnd(s, p) ==
    LET q1 == SkipSpace(s, p)
        q2 == SkipSpace(s, q1 + 4)
        q3 == SkipDigits(s, q2)
        q4 == SkipSpace(s, q3)
    IN  IF /\ IsLineStart(s, p)
           /\ StartsWithAt(Lower(s), q1, <<"p", "a", "g", "e">>)
           /\ q2 > q1 + 4
           /\ q3 > q2
        THEN LastLineEnd(s, q3, q4)
        ELSE 0

\* re.sub(r'^\s*Page\s+\d+\s*$', '', text, flags=re.MULTILINE | re.IGNORECASE)
RECURSIVE RemovePageLabels(_, _)
RemovePageLabels(s, p) ==
    IF p > Len(s) THEN <<>>
    ELSE LET e == PageLabelEnd(s, p)
             n == LineEnd(s, p)
         IN  IF e # 0 THEN RemovePageLabels(s, e)
             ELSE IF n > Len(s) THEN SubSeq(s, p, Len(s))
             ELSE SubSeq(s, p, n) \o RemovePageLabels(s, n + 1)

\* the end of the match of \n\s*\n\s*\n+ at the "\n" at p, 0 when none: the
\* whitespace run after p must hold two more "\n", and the match ends after
\* the last of them
BlankRunEnd(s, p) ==
    LET q == SkipSpace(s, p + 1)
        N == {n \in (p + 1)..(q - 1) : s[n] = "\n"}
    IN  IF Ch(s, p) = "\n" /\ Cardinality(N) >= 2 THEN MaxOf(N) + 1 ELSE 0

\* re.sub(r'\n\s*\n\s*\n+', '\n\n', text), from p on
RECURSIVE CollapseBlankLines(_, _)
CollapseBlankLines(s, p) ==
    IF p > Len(s) THEN <<>>
    ELSE LET n == LineEnd(s, p)
             e == BlankRunEnd(s, n)
         IN  IF n > Len(s) THEN SubSeq(s, p, Len(s))
             ELSE IF e # 0
                  THEN SubSeq(s, p, n - 1) \o <<"\n", "\n">> \o CollapseBlankLines(s, e)
             ELSE SubSeq(s, p, n) \o CollapseBlankLines(s, n + 1)

\* '|' in line or any(c in line for c in ['─', '│', '┌', '┐', '└', '┘'])
IsTableLine(line) ==
    \E k \in 1..Len(line) :
        line[k] \in {"|", "BOX_H", "BOX_V", "BOX_DR", "BOX_DL", "BOX_UR", "BOX_UL"}

\* re.sub(r'[ \t]+', ' ', line) on line[lo..hi]; halving keeps the evaluation
\* depth logarithmic in the length of the line
RECURSIVE CollapseSpaces(_, _, _)
CollapseSpaces(line, lo, hi) ==
    IF lo > hi THEN <<>>
    ELSE IF lo = hi
         THEN IF ~IsBlank(line[lo]) THEN <<line[lo]>>
              ELSE IF IsBlank(Ch(line, lo - 1)) THEN <<>> ELSE <<" ">>
    ELSE LET mid == (lo + hi) \div 2
         IN  CollapseSpaces(line, lo, mid) \o CollapseSpaces(line, mid + 1, hi)

\* lines 22-28: one line of the loop over text.split('\n')
NormalizeLine(line) ==
    IF IsTableLine(line) THEN line
    ELSE Strip(CollapseSpaces(line, 1, Len(line)))

\* lines 20-30: '\n'.join of the normalized lines, from the line at p on
RECURSIVE NormalizeLines(_, _)
NormalizeLines(s, p) ==
    LET n == LineEnd(s, p)
        line == NormalizeLine(SubSeq(s, p, n - 1))
    IN  IF n > Len(s) THEN line
        ELSE line \o <<"\n">> \o NormalizeLines(s, n + 1)

clean_text(s) ==
    LET t1 == RemovePageNumbers(s, 1)
        t2 == RemovePageLabels(t1, 1)
        t3 == CollapseBlankLines(t2, 1)
    IN  Strip(NormalizeLines(t3, 1))

---------------------------------------------------------------------------
(* detect_section_type                                                     *)

\* line 42
CourseHeaderWords ==
    { <<"c", "o", "u", "r", "s", "e", " ", "c", "o", "d", "e">>,
      <<"c", "o", "u", "r", "s", "e", " ", "n", "a", "m", "e">>,
      <<"c", "r", "e", "d", "i", "t", "s">>,
      <<"c", "o", "r", "e", " ", "c", "o", "u", "r", "s", "e">>,
      <<"f", ".", "y", ".">>,
      <<"s", ".", "y", ".">>,
      <<"t", ".", "y", ".">> }

\* line 46
SyllabusWords ==
    { <<"s", "y", "l", "l", "a", "b", "u", "s">>,
      <<"c", "o", "u", "r", "s", "e", " ", "c", "o", "n", "t", "e", "n", "t">>,
      <<"t", "o", "p", "i", "c", "s", " ", "c", "o", "v", "e", "r", "e", "d">>,
      <<"m", "o", "d", "u", "l", "e">> }

\* line 50
ObjectivesWords ==
    { <<"l", "e", "a", "r", "n", "i", "n", "g", " ", "o", "b", "j", "e", "c", "t", "i", "v", "e", "s">>,
      <<"c", "o", "u", "r", "s", "e", " ", "o", "b", "j", "e", "c", "t", "i", "v", "e", "s">>,
      <<"o", "u", "t", "c", "o", "m", "e", "s">>,
      <<"l", "e", "a", "r", "n", "i", "n", "g", " ", "o", "u", "t", "c", "o", "m", "e", "s">> }

\* line 54
ReferencesWords ==
    { <<"t", "e", "x", "t", "b", "o", "o", "k">>,
      <<"r", "e", "f", "e", "r", "e", "n", "c", "e">>,
      <<"r", "e", "c", "o", "m", "m", "e", "n", "d", "e", "d">>,
      <<"b", "o", "o", "k">>,
      <<"p", "u", "b", "l", "i", "c", "a", "t", "i", "o", "n">> }

\* line 58
EvaluationWords ==
    { <<"e", "v", "a", "l", "u", "a", "t", "i", "o", "n">>,
      <<"m", "a", "r", "k", "s">>,
      <<"a", "s", "s", "e", "s", "s", "m", "e", "n", "t">>,
      <<"g", "r", "a", "d", "i", "n", "g">>,
      <<"w", "e", "i", "g", "h", "t", "a", "g", "e">>,
      <<"i", "n", "t", "e", "r", "n", "a", "l">>,
      <<"e", "n", "d", " ", "t", "e", "r", "m">> }

\* line 62
PrerequisiteWords ==
    { <<"p", "r", "e", "r", "e", "q", "u", "i", "s", "i", "t", "e">>,
      <<"p", "r", "i", "o", "r", " ", "k", "n", "o", "w", "l", "e", "d", "g", "e">>,
      <<"p", "r", "e", "-", "r", "e", "q", "u", "i", "s", "i", "t", "e">> }

\* any(word in text_lower for word in words)
ContainsAny(s, words) == \E w \in words : Contains(s, w)

\* line 38: any(char in text for char in ['|', '─', '│', '┌']) or text.count('\t') > 3
HasTableCue(s) ==
    \/ \E k \in 1..Len(s) : s[k] \in {"|", "BOX_H", "BOX_V", "BOX_DR"}
    \/ Cardinality({k \in 1..Len(s) : s[k] = "\t"}) > 3

\* line 66: re.search(r'[0-9]{1,2}\s+[A-Z][a-z]+\s+[0-9]{4}', text)
HasDate(s) ==
    \E p \in 1..Len(s) : \E d \in {1, 2} :
        LET a == p + d
            q == SkipSpace(s, a)
            r == SkipLower(s, q + 1)
            t == SkipSpace(s, r)
        IN  /\ \A k \in p..(a - 1) : IsDigit(Ch(s, k))
            /\ q > a
            /\ IsUpper(Ch(s, q))
            /\ r > q + 1
            /\ t > r
            /\ \A k \in t..(t + 3) : IsDigit(Ch(s, k))

\* line 70: re.search(r'credits?|hrs?\.|hours\s+per\s+week', text_lower)
HasCreditsCue(lo) ==
    \/ Contains(lo, <<"c", "r", "e", "d", "i", "t">>)
    \/ Contains(lo, <<"h", "r", ".">>)
    \/ Contains(lo, <<"h", "r", "s", ".">>)
    \/ \E p \in 1..Len(lo) :
        LET q == SkipSpace(lo, p + 5)
            r == SkipSpace(lo, q + 3)
        IN  /\ StartsWithAt(lo, p, <<"h", "o", "u", "r", "s">>)
            /\ q > p + 5
            /\ StartsWithAt(lo, q, <<"p", "e", "r">>)
            /\ r > q + 3
            /\ StartsWithAt(lo, r, <<"w", "e", "e", "k">>)

\* detect_section_type with the evaluation words looked for before the table cue
detect_section_type_EvaluationFirst(s) ==
    LET text_lower == Lower(s)
    IN  IF ContainsAny(text_lower, EvaluationWords) THEN "evaluation"
        ELSE IF HasTableCue(s) THEN "table"
        ELSE IF ContainsAny(text_lower, CourseHeaderWords) THEN "course_header"
        ELSE IF ContainsAny(text_lower, SyllabusWords) THEN "syllabus"
        ELSE IF ContainsAny(text_lower, ObjectivesWords) THEN "objectives"
        ELSE IF ContainsAny(text_lower, ReferencesWords) THEN "references"
        ELSE IF ContainsAny(text_lower, PrerequisiteWords) THEN "prerequisites"
        ELSE IF HasDate(s) THEN "schedule"
        ELSE IF HasCreditsCue(text_lower) THEN "credits_info"
        ELSE "general"

detect_section_type(s) ==
    LET text_lower == Lower(s)
    IN  IF HasTableCue(s) THEN "table"
        ELSE IF ContainsAny(text_lower, CourseHeaderWords) THEN "course_header"
        ELSE IF ContainsAny(text_lower, SyllabusWords) THEN "syllabus"
        ELSE IF ContainsAny(text_lower, ObjectivesWords) THEN "objectives"
        ELSE IF ContainsAny(text_lower, ReferencesWords) THEN "references"
        ELSE IF ContainsAny(text_lower, EvaluationWords) THEN "evaluation"
        ELSE IF ContainsAny(text_lower, PrerequisiteWords) THEN "prerequisites"
        ELSE IF HasDate(s) THEN "schedule"
        ELSE IF HasCreditsCue(text_lower) THEN "credits_info"
        ELSE "general"

---------------------------------------------------------------------------
(* extract_subject_info                                                    *)
(* A search is modelled by the group it captures: <<>> when the pattern    *)
(* matches nowhere, <<g>> for the group g of the leftmost match.  Literals *)
(* under re.IGNORECASE are compared on the lower-cased text.               *)

\* greedy [A-Z]* from p
RECURSIVE SkipUpper(_, _)
SkipUpper(s, p) == IF IsUpper(Ch(s, p)) THEN SkipUpper(s, p + 1) ELSE p

\* greedy [:\s]* from p
RECURSIVE SkipColonSpace(_, _)
SkipColonSpace(s, p) ==
    IF Ch(s, p) = ":" \/ IsSpace(Ch(s, p)) THEN SkipColonSpace(s, p + 1) ELSE p

\* greedy [IVX]* under re.IGNORECASE from p
RECURSIVE SkipRomanAnyCase(_, _)
SkipRomanAnyCase(s, p) ==
    IF Ch(s, p) \in {"I", "V", "X", "i", "v", "x"} THEN SkipRomanAnyCase(s, p + 1) ELSE p

\* groups[p] is the group of a match at position p, <<>> when there is
\* none: the group of the leftmost match
FirstGroup(groups) ==
    LET hits == {p \in DOMAIN groups : groups[p] # <<>>}
    IN  IF hits = {} THEN <<>> ELSE groups[MinOf(hits)]

\* line 80: the end of [A-Z]{2,4}\s*[-]?\s*\d{3,4} at p, 0 when none (the
\* second alternative [A-Z]{2,4}\d{3,4} matches nothing the first does not)
CourseCodeEnd(s, p) ==
    LET a  == SkipUpper(s, p)
        w1 == SkipSpace(s, a)
        d  == IF Ch(s, w1) = "-" THEN w1 + 1 ELSE w1
        w2 == SkipSpace(s, d)
        e  == SkipDigits(s, w2)
    IN  IF a - p >= 2 /\ a - p <= 4 /\ e - w2 >= 3
        THEN w2 + MinOf({e - w2, 4})
        ELSE 0

\* lines 80-82
CourseCodeGroup(s) ==
    LET Group(p) == IF CourseCodeEnd(s, p) # 0
                    THEN <<Strip(SubSeq(s, p, CourseCodeEnd(s, p) - 1))>>
                    ELSE <<>>
    IN  FirstGroup([p \in 1..Len(s) |-> Group(p)])

\* [:\s]*([^\n]+?)(?:\n|$) from a: the group runs from the first character
\* after the greedy [:\s]* to the end of its line; when [:\s]* reaches the
\* end of the text it gives back down to the last character that is not
\* "\n", which is then the whole group
RestOfLineGroup(s, a) ==
    LET c == SkipColonSpace(s, a)
        K == {k \in a..Len(s) : s[k] # "\n"}
    IN  IF c <= Len(s) THEN <<SubSeq(s, c, LineEnd(s, c) - 1)>>
        ELSE IF K = {} THEN <<>>
        ELSE <<SubSeq(s, MaxOf(K), MaxOf(K))>>

\* lines 85-87: (?:Course|Subject)?\s*(?:Title|Name)[:\s]*([^\n]+?)(?:\n|$)
CourseNameGroup(s) ==
    LET lo == Lower(s)
        Group(q) ==
            IF StartsWithAt(lo, q, <<"t", "i", "t", "l", "e">>)
            THEN RestOfLineGroup(s, q + 5)
            ELSE IF StartsWithAt(lo, q, <<"n", "a", "m", "e">>)
            THEN RestOfLineGroup(s, q + 4)
            ELSE <<>>
        found == FirstGroup([p \in 1..Len(s) |-> Group(p)])
    IN  IF found = <<>> THEN <<>> ELSE <<Strip(found[1])>>

\* lines 90-92: Credits?\s*[:=]?\s*(\d+(?:\.\d)?)
CreditsGroup(s) ==
    LET lo == Lower(s)
        Group(q) ==
            LET a  == IF Ch(lo, q + 6) = "s" THEN q + 7 ELSE q + 6
                w1 == SkipSpace(s, a)
                e  == IF Ch(s, w1) \in {":", "="} THEN w1 + 1 ELSE w1
                w2 == SkipSpace(s, e)
                d  == SkipDigits(s, w2)
                f  == IF Ch(s, d) = "." /\ IsDigit(Ch(s, d + 1)) THEN d + 2 ELSE d
            IN  IF StartsWithAt(lo, q, <<"c", "r", "e", "d", "i", "t">>) /\ d > w2
                THEN <<Strip(SubSeq(s, w2, f - 1))>>
                ELSE <<>>
    IN  FirstGroup([p \in 1..Len(s) |-> Group(p)])

\* \s*[:=]?\s*([IVX]+|[1-8]) under re.IGNORECASE from a
SemesterValue(s, a) ==
    LET w1 == SkipSpace(s, a)
        e  == IF Ch(s, w1) \in {":", "="} THEN w1 + 1 ELSE w1
        w2 == SkipSpace(s, e)
        r  == SkipRomanAnyCase(s, w2)
    IN  IF r > w2 THEN <<SubSeq(s, w2, r - 1)>>
        ELSE IF Ch(s, w2) \in {"1", "2", "3", "4", "5", "6", "7", "8"}
        THEN <<SubSeq(s, w2, w2)>>
        ELSE <<>>

\* lines 95-97: (?:Sem|Semester)\s*[:=]?\s*([IVX]+|[1-8]), lower-cased
SemesterGroup(s) ==
    LET lo == Lower(s)
        Group(q) ==
            IF ~StartsWithAt(lo, q, <<"s", "e", "m">>) THEN <<>>
            ELSE IF SemesterValue(s, q + 3) # <<>> THEN SemesterValue(s, q + 3)
            ELSE IF StartsWithAt(lo, q, <<"s", "e", "m", "e", "s", "t", "e", "r">>)
            THEN SemesterValue(s, q + 8)
            ELSE <<>>
        found == FirstGroup([p \in 1..Len(s) |-> Group(p)])
    IN  IF found = <<>> THEN <<>> ELSE <<Lower(Strip(found[1]))>>

\* lines 100-102: (\d+)\s*(?:hrs?|hours)\s*/\s*(?:week|wk)
TeachingHoursGroup(s) ==
    LET lo == Lower(s)
        Group(p) ==
            LET d  == SkipDigits(s, p)
                w1 == SkipSpace(s, d)
                u  == IF StartsWithAt(lo, w1, <<"h", "r", "s">>) THEN w1 + 3
                      ELSE IF StartsWithAt(lo, w1, <<"h", "r">>) THEN w1 + 2
                      ELSE IF StartsWithAt(lo, w1, <<"h", "o", "u", "r", "s">>) THEN w1 + 5
                      ELSE 0
                w2 == SkipSpace(s, u)
                w3 == SkipSpace(s, w2 + 1)
            IN  IF /\ d > p
                   /\ u # 0
                   /\ Ch(s, w2) = "/"
                   /\ \/ StartsWithAt(lo, w3, <<"w", "e", "e", "k">>)
                      \/ StartsWithAt(lo, w3, <<"w", "k">>)
                THEN <<Strip(SubSeq(s, p, d - 1))>>
                ELSE <<>>
    IN  FirstGroup([p \in 1..Len(s) |-> Group(p)])

\* lines 105-107: (?:Course\s+)?Type[:\s]*([^\n]+?)(?:\n|$)
CourseTypeGroup(s) ==
    LET lo == Lower(s)
        Group(q) ==
            IF StartsWithAt(lo, q, <<"t", "y", "p", "e">>)
            THEN RestOfLineGroup(s, q + 4)
            ELSE <<>>
        found == FirstGroup([p \in 1..Len(s) |-> Group(p)])
    IN  IF found = <<>> THEN <<>> ELSE <<Strip(found[1])>>

InfoKeys ==
    {"course_code", "course_name", "credits", "semester", "teaching_hours",
     "course_type"}

\* the group the pattern of a key captures in s
InfoGroup(key, s) ==
    CASE key = "course_code"    -> CourseCodeGroup(s)
      [] key = "course_name"    -> CourseNameGroup(s)
      [] key = "credits"        -> CreditsGroup(s)
      [] key = "semester"       -> SemesterGroup(s)
      [] key = "teaching_hours" -> TeachingHoursGroup(s)
      [] key = "course_type"    -> CourseTypeGroup(s)

\* the dict info: a key is present when its pattern matched
MatchedGroups(groups) ==
    [key \in {k \in DOMAIN groups : groups[k] # <<>>} |-> groups[key][1]]

\* lines 77-109
extract_subject_info(s) == MatchedGroups([key \in InfoKeys |-> InfoGroup(key, s)])

---------------------------------------------------------------------------
(* chunk_by_semantic_sections (lines 111-223)                              *)

\* line 137: the end of the numbering token of section_pattern at p, 0 when
\* none: [A-Z][.)] | [IVX]+[.)] | \d+[.)] | SEM-[IVX] | MODULE\s+\d+
\* (two alternatives that both match at p end at the same position)
HeaderTokenEnd(s, p) ==
    LET r == SkipRoman(s, p)
        d == SkipDigits(s, p)
        w == SkipSpace(s, p + 6)
        m == SkipDigits(s, w)
    IN  IF IsUpper(Ch(s, p)) /\ IsDotParen(Ch(s, p + 1)) THEN p + 2
        ELSE IF r > p /\ IsDotParen(Ch(s, r)) THEN r + 1
        ELSE IF d > p /\ IsDotParen(Ch(s, d)) THEN d + 1
        ELSE IF StartsWithAt(s, p, <<"S", "E", "M", "-">>) /\ IsRoman(Ch(s, p + 4))
             THEN p + 5
        ELSE IF /\ StartsWithAt(s, p, <<"M", "O", "D", "U", "L", "E">>)
                /\ w > p + 6
                /\ m > w
             THEN m
        ELSE 0

\* the end of the match of section_pattern at p (re.MULTILINE), 0 when none:
\* the token, then \s+ (greedy, it may cross line ends), then .+ to the end
\* of the line; at the end of the text \s+ gives back down to the last
\* whitespace character that is not "\n"
HeaderEnd(s, p) ==
    LET a == HeaderTokenEnd(s, p)
        q == SkipSpace(s, a)
        K == {k \in (a + 1)..(q - 1) : s[k] # "\n"}
    IN  IF ~IsLineStart(s, p) \/ a = 0 \/ q = a THEN 0
        ELSE IF q <= Len(s) THEN LineEnd(s, q)
        ELSE IF K = {} THEN 0
        ELSE MaxOf(K) + 1

\* line 139: re.split(f'({section_pattern})', text, flags=re.MULTILINE): the
\* segments from the search position p on, body being where the pending
\* body segment starts
RECURSIVE SplitFrom(_, _, _)
SplitFrom(s, p, body) ==
    IF p > Len(s) THEN <<SubSeq(s, body, Len(s))>>
    ELSE LET e == HeaderEnd(s, p)
             n == LineEnd(s, p)
         IN  IF e # 0
             THEN <<SubSeq(s, body, p - 1), SubSeq(s, p, e - 1)>> \o SplitFrom(s, e, e)
             ELSE IF n > Len(s) THEN <<SubSeq(s, body, Len(s))>>
             ELSE SplitFrom(s, n + 1, body)

SplitSections(s) == SplitFrom(s, 1, 1)

\* line 150: bool(re.match(section_pattern, section.strip(), flags=re.MULTILINE))
is_header(section) == HeaderEnd(Strip(section), 1) # 0

\* the sentinel section of lines 157, 189, 210 and 261
General == <<"g", "e", "n", "e", "r", "a", "l">>

\* the chunk dict of lines 155-162, 187-194, 208-215 (and 259-266)
MakeChunk(acc, header, num) ==
    [ text      |-> Strip(acc),
      section   |-> IF header # <<>> THEN Strip(header) ELSE General,
      type      |-> detect_section_type(acc),
      metadata  |-> extract_subject_info(acc),
      size      |-> Len(acc),
      chunk_num |-> num ]

\* line 181: current_chunk.split('\n\n'), from p on
RECURSIVE SplitParagraphs(_, _)
SplitParagraphs(s, p) ==
    LET N == {n \in p..(Len(s) - 1) : s[n] = "\n" /\ s[n + 1] = "\n"}
    IN  IF N = {} THEN <<SubSeq(s, p, Len(s))>>
        ELSE <<SubSeq(s, p, MinOf(N) - 1)>> \o SplitParagraphs(s, MinOf(N) + 2)

\* SplitOversized without the temp_chunk.strip() test of line 185
RECURSIVE SplitOversized_NoStripCheck(_, _, _, _, _, _, _)
SplitOversized_NoStripCheck(paragraphs, k, temp_chunk, out, count, header, max) ==
    IF k > Len(paragraphs)
    THEN [chunks |-> out, current_chunk |-> temp_chunk, chunk_count |-> count]
    ELSE LET para == paragraphs[k]
         IN  IF Len(temp_chunk) + Len(para) > max
             THEN SplitOversized_NoStripCheck(paragraphs, k + 1, para,
                        Append(out, MakeChunk(temp_chunk, header, count)),
                        count + 1, header, max)
             ELSE SplitOversized_NoStripCheck(paragraphs, k + 1,
                        IF temp_chunk # <<>>
                        THEN temp_chunk \o <<"\n", "\n">> \o para
                        ELSE para,
                        out, count, header, max)

\* SplitOversized whose flush empties temp_chunk instead of taking the
\* paragraph (line 197)
RECURSIVE SplitOversized_DropsParagraph(_, _, _, _, _, _, _)
SplitOversized_DropsParagraph(paragraphs, k, temp_chunk, out, count, header, max) ==
    IF k > Len(paragraphs)
    THEN [chunks |-> out, current_chunk |-> temp_chunk, chunk_count |-> count]
    ELSE LET para == paragraphs[k]
         IN  IF Len(temp_chunk) + Len(para) > max /\ Strip(temp_chunk) # <<>>
             THEN SplitOversized_DropsParagraph(paragraphs, k + 1, <<>>,
                                 Append(out, MakeChunk(temp_chunk, header, count)),
                                 count + 1, header, max)
             ELSE SplitOversized_DropsParagraph(paragraphs, k + 1,
                                 IF temp_chunk # <<>>
                                 THEN temp_chunk \o <<"\n", "\n">> \o para
                                 ELSE para,
                                 out, count, header, max)

\* lines 184-204: the loop over paragraphs from the k-th on; its result is
\* the chunk list, the remainder (the new accumulator) and the counter
RECURSIVE SplitOversized(_, _, _, _, _, _, _)
SplitOversized(paragraphs, k, temp_chunk, out, count, header, max) ==
    IF k > Len(paragraphs)
    THEN [chunks |-> out, current_chunk |-> temp_chunk, chunk_count |-> count]
    ELSE LET para == paragraphs[k]
         IN  IF Len(temp_chunk) + Len(para) > max /\ Strip(temp_chunk) # <<>>
             THEN SplitOversized(paragraphs, k + 1, para,
                                 Append(out, MakeChunk(temp_chunk, header, count)),
                                 count + 1, header, max)
             ELSE SplitOversized(paragraphs, k + 1,
                                 IF temp_chunk # <<>>
                                 THEN temp_chunk \o <<"\n", "\n">> \o para
                                 ELSE para,
                                 out, count, header, max)

\* MeetsMinimum without the current_chunk.strip() test
MeetsMinimum_NoStrip(acc, min) == Len(acc) >= min

\* line 154 / 207: current_chunk.strip() and len(current_chunk) >= min_chunk_size
MeetsMinimum(acc, min) == Strip(acc) # <<>> /\ Len(acc) >= min

\* lines 132-143
SemanticCall ==
    /\ op = "semantic"
    /\ pc = "call"
    /\ text' = clean_text(text)
    /\ sections' = SplitSections(text')
    /\ i' = 1
    /\ current_chunk' = <<>>
    /\ current_section_header' = <<>>
    /\ chunk_count' = 0
    /\ chunks' = <<>>
    /\ pc' = "loop"
    /\ UNCHANGED <<op, raw_text, min_chunk_size, max_chunk_size, chunk_size, overlap,
                   start, text_length, window_starts, label,
                   info, first_pass, serviceVars>>

InWalk == op = "semantic" /\ pc = "loop" /\ i <= Len(sections)

\* lines 146-147
SkipBlankSegment ==
    /\ InWalk
    /\ Strip(sections[i]) = <<>>
    /\ i' = i + 1
    /\ UNCHANGED <<op, raw_text, text, min_chunk_size, max_chunk_size, chunk_size,
                   overlap, pc, sections, current_chunk, current_section_header,
                   chunk_count, chunks, start, text_length, window_starts, label,
                   info, first_pass, serviceVars>>

\* HeaderFinalize without chunk_count += 1 (line 164)
HeaderFinalize_KeepsCount ==
    /\ InWalk
    /\ Strip(sections[i]) # <<>>
    /\ is_header(sections[i])
    /\ MeetsMinimum(current_chunk, min_chunk_size)
    /\ chunks' = Append(chunks,
                        MakeChunk(current_chunk, current_section_header, chunk_count))
    /\ current_section_header' = Strip(sections[i])
    /\ current_chunk' = <<>>
    /\ i' = i + 1
    /\ UNCHANGED <<op, raw_text, text, min_chunk_size, max_chunk_size, chunk_size,
                   overlap, pc, sections, chunk_count, start, text_length,
                   window_starts, label,
                   info, first_pass, serviceVars>>

\* HeaderFinalize without current_chunk = "" (line 173)
HeaderFinalize_KeepsAccumulator ==
    /\ InWalk
    /\ Strip(sections[i]) # <<>>
    /\ is_header(sections[i])
    /\ MeetsMinimum(current_chunk, min_chunk_size)
    /\ chunks' = Append(chunks,
                        MakeChunk(current_chunk, current_section_header, chunk_count))
    /\ chunk_count' = chunk_count + 1
    /\ current_section_header' = Strip(sections[i])
    /\ i' = i + 1
    /\ UNCHANGED <<op, raw_text, text, min_chunk_size, max_chunk_size, chunk_size,
                   overlap, pc, sections, current_chunk, start, text_length,
                   window_starts, label,
                   info, first_pass, serviceVars>>

\* lines 152-164 and 171-173: a header finalizes the accumulator
HeaderFinalize ==
    /\ InWalk
    /\ Strip(sections[i]) # <<>>
    /\ is_header(sections[i])
    /\ MeetsMinimum(current_chunk, min_chunk_size)
    /\ chunks' = Append(chunks,
                        MakeChunk(current_chunk, current_section_header, chunk_count))
    /\ chunk_count' = chunk_count + 1
    /\ current_section_header' = Strip(sections[i])
    /\ current_chunk' = <<>>
    /\ i' = i + 1
    /\ UNCHANGED <<op, raw_text, text, min_chunk_size, max_chunk_size, chunk_size,
                   overlap, pc, sections, start, text_length, window_starts, label,
                   info, first_pass, serviceVars>>

\* HeaderDefer that also takes the header as the one in force (line 172)
HeaderDefer_SetsHeader ==
    /\ InWalk
    /\ Strip(sections[i]) # <<>>
    /\ is_header(sections[i])
    /\ ~MeetsMinimum(current_chunk, min_chunk_size)
    /\ Strip(current_chunk) # <<>>
    /\ current_chunk' = Strip(sections[i]) \o <<"\n">> \o current_chunk
    /\ current_section_header' = Strip(sections[i])
    /\ i' = i + 1
    /\ UNCHANGED <<op, raw_text, text, min_chunk_size, max_chunk_size, chunk_size,
                   overlap, pc, sections, chunk_count, chunks,
                   start, text_length, window_starts, label,
                   info, first_pass, serviceVars>>

\* lines 165-169: a header met with a small accumulator is put in front of it
HeaderDefer ==
    /\ InWalk
    /\ Strip(sections[i]) # <<>>
    /\ is_header(sections[i])
    /\ ~MeetsMinimum(current_chunk, min_chunk_size)
    /\ Strip(current_chunk) # <<>>
    /\ current_chunk' = Strip(sections[i]) \o <<"\n">> \o current_chunk
    /\ i' = i + 1
    /\ UNCHANGED <<op, raw_text, text, min_chunk_size, max_chunk_size, chunk_size,
                   overlap, pc, sections, current_section_header, chunk_count, chunks,
                   start, text_length, window_starts, label,
                   info, first_pass, serviceVars>>

\* HeaderFresh without current_section_header = section.strip() (line 172)
HeaderFresh_KeepsHeader ==
    /\ InWalk
    /\ Strip(sections[i]) # <<>>
    /\ is_header(sections[i])
    /\ Strip(current_chunk) = <<>>
    /\ current_chunk' = <<>>
    /\ i' = i + 1
    /\ UNCHANGED <<op, raw_text, text, min_chunk_size, max_chunk_size, chunk_size,
                   overlap, pc, sections, current_section_header, chunk_count,
                   chunks, start, text_length, window_starts, label,
                   info, first_pass, serviceVars>>

\* lines 152-154 and 171-173: a header met with a blank accumulator
HeaderFresh ==
    /\ InWalk
    /\ Strip(sections[i]) # <<>>
    /\ is_header(sections[i])
    /\ Strip(current_chunk) = <<>>
    /\ current_section_header' = Strip(sections[i])
    /\ current_chunk' = <<>>
    /\ i' = i + 1
    /\ UNCHANGED <<op, raw_text, text, min_chunk_size, max_chunk_size, chunk_size,
                   overlap, pc, sections, chunk_count, chunks, start, text_length,
                   window_starts, label,
                   info, first_pass, serviceVars>>

\* lines 174-204: a body segment, with the split of an oversized accumulator
BodySegment ==
    /\ InWalk
    /\ Strip(sections[i]) # <<>>
    /\ ~is_header(sections[i])
    /\ LET grown == current_chunk \o <<"\n">> \o sections[i]
           split == SplitOversized(SplitParagraphs(grown, 1), 1, <<>>, chunks,
                                   chunk_count, current_section_header,
                                   max_chunk_size)
       IN  IF Len(grown) > max_chunk_size
           THEN /\ chunks' = split.chunks
                /\ chunk_count' = split.chunk_count
                /\ current_chunk' = split.current_chunk
           ELSE /\ current_chunk' = grown
                /\ UNCHANGED <<chunks, chunk_count>>
    /\ i' = i + 1
    /\ UNCHANGED <<op, raw_text, text, min_chunk_size, max_chunk_size, chunk_size,
                   overlap, pc, sections, current_section_header, start, text_length,
                   window_starts, label,
                   info, first_pass, serviceVars>>

AtEnd == op = "semantic" /\ pc = "loop" /\ i > Len(sections)

\* lines 207-216 and 223: the last accumulator becomes the last chunk
FinishLastChunk ==
    /\ AtEnd
    /\ MeetsMinimum(current_chunk, min_chunk_size)
    /\ chunks' = Append(chunks,
                        MakeChunk(current_chunk, current_section_header, chunk_count))
    /\ pc' = "done"
    /\ UNCHANGED <<op, raw_text, text, min_chunk_size, max_chunk_size, chunk_size,
                   overlap, sections, i, current_chunk, current_section_header,
                   chunk_count, start, text_length, window_starts, label,
                   info, first_pass, serviceVars>>

\* lines 217-223: a small last accumulator is appended to the last chunk
FinishMerge ==
    /\ AtEnd
    /\ ~MeetsMinimum(current_chunk, min_chunk_size)
    /\ Strip(current_chunk) # <<>>
    /\ Len(chunks) > 0
    /\ LET last_chunk == chunks[Len(chunks)]
       IN  chunks' = [chunks EXCEPT ![Len(chunks)] =
                        [last_chunk EXCEPT
                            !.text = last_chunk.text \o <<"\n">> \o Strip(current_chunk),
                            !.size = last_chunk.size + Len(current_chunk)]]
    /\ pc' = "done"
    /\ UNCHANGED <<op, raw_text, text, min_chunk_size, max_chunk_size, chunk_size,
                   overlap, sections, i, current_chunk, current_section_header,
                   chunk_count, start, text_length, window_starts, label,
                   info, first_pass, serviceVars>>

\* lines 207, 217 and 223: neither branch is taken, the accumulator is not used
FinishNoChunk ==
    /\ AtEnd
    /\ ~MeetsMinimum(current_chunk, min_chunk_size)
    /\ Strip(current_chunk) = <<>> \/ Len(chunks) = 0
    /\ pc' = "done"
    /\ UNCHANGED <<op, raw_text, text, min_chunk_size, max_chunk_size, chunk_size,
                   overlap, sections, i, current_chunk, current_section_header,
                   chunk_count, chunks, start, text_length, window_starts, label,
                   info, first_pass, serviceVars>>

---------------------------------------------------------------------------
(* Invocations of chunk_by_semantic_sections (lines 111-223) in progress   *)
(* at the same time.  Every name the function assigns is a parameter or a  *)
(* local of the invocation (lines 132-143): an invocation is the record of *)
(* its own parameters and locals, and a step of an invocation is one       *)
(* statement group of the function applied to that record.                 *)

Invocations == {1, 2}

\* the frame of an invocation at its call
CallFrame(t, min, max) ==
    [ raw_text |-> t, text |-> t, min_chunk_size |-> min, max_chunk_size |-> max,
      pc |-> "call", sections |-> <<>>, i |-> 0, current_chunk |-> <<>>,
      current_section_header |-> <<>>, chunk_count |-> 0, chunks |-> <<>> ]

\* lines 132-143
FrameCall(c) ==
    LET cleaned == clean_text(c.text)
    IN  [c EXCEPT !.text = cleaned, !.sections = SplitSections(cleaned), !.i = 1,
                  !.current_chunk = <<>>, !.current_section_header = <<>>,
                  !.chunk_count = 0, !.chunks = <<>>, !.pc = "loop"]

\* lines 152-173: the header branch of one iteration
FrameHeader(c) ==
    LET section == c.sections[c.i]
    IN  IF MeetsMinimum(c.current_chunk, c.min_chunk_size)
        THEN [c EXCEPT !.chunks = Append(c.chunks,
                                         MakeChunk(c.current_chunk,
                                                   c.current_section_header,
                                                   c.chunk_count)),
                       !.chunk_count = c.chunk_count + 1,
                       !.current_section_header = Strip(section),
                       !.current_chunk = <<>>,
                       !.i = c.i + 1]
        ELSE IF Strip(c.current_chunk) # <<>>
        THEN [c EXCEPT !.current_chunk = Strip(section) \o <<"\n">> \o c.current_chunk,
                       !.i = c.i + 1]
        ELSE [c EXCEPT !.current_section_header = Strip(section),
                       !.current_chunk = <<>>,
                       !.i = c.i + 1]

\* lines 179-199: the chunks, the counter and the accumulator after the
\* paragraphs were split
FrameSplit(c, split) ==
    [c EXCEPT !.chunks = split.chunks,
              !.chunk_count = split.chunk_count,
              !.current_chunk = split.current_chunk,
              !.i = c.i + 1]

\* lines 174-204: the body branch of one iteration
FrameBody(c) ==
    LET grown == c.current_chunk \o <<"\n">> \o c.sections[c.i]
    IN  IF Len(grown) > c.max_chunk_size
        THEN FrameSplit(c, SplitOversized(SplitParagraphs(grown, 1), 1, <<>>,
                                          c.chunks, c.chunk_count,
                                          c.current_section_header,
                                          c.max_chunk_size))
        ELSE [c EXCEPT !.current_chunk = grown, !.i = c.i + 1]

\* lines 206-223
FrameReturn(c) ==
    IF MeetsMinimum(c.current_chunk, c.min_chunk_size)
    THEN [c EXCEPT !.chunks = Append(c.chunks,
                                     MakeChunk(c.current_chunk,
                                               c.current_section_header,
                                               c.chunk_count)),
                   !.pc = "done"]
    ELSE IF Strip(c.current_chunk) # <<>> /\ Len(c.chunks) > 0
    THEN LET last_chunk == c.chunks[Len(c.chunks)]
         IN  [c EXCEPT !.chunks[Len(c.chunks)] =
                            [last_chunk EXCEPT
                                !.text = last_chunk.text \o <<"\n">>
                                             \o Strip(c.current_chunk),
                                !.size = last_chunk.size + Len(c.current_chunk)],
                       !.pc = "done"]
    ELSE [c EXCEPT !.pc = "done"]

\* the next statement group of an invocation that has not returned
FrameStep(c) ==
    IF c.pc = "call" THEN FrameCall(c)
    ELSE IF c.i > Len(c.sections) THEN FrameReturn(c)
    ELSE IF Strip(c.sections[c.i]) = <<>> THEN [c EXCEPT !.i = c.i + 1]
    ELSE IF is_header(c.sections[c.i]) THEN FrameHeader(c)
    ELSE FrameBody(c)

\* the invocation run to its return without any other one
RECURSIVE RunAlone(_)
RunAlone(c) == IF c.pc = "done" THEN c ELSE RunAlone(FrameStep(c))

\* InvocationStep with chunk_count kept in one place for all invocations
InvocationStep_SharedCounter(p) ==
    /\ op = "concurrent"
    /\ calls[p].pc # "done"
    /\ LET stepped == FrameStep(calls[p])
       IN  calls' = [q \in Invocations |->
                        IF q = p THEN stepped
                        ELSE [calls[q] EXCEPT !.chunk_count = stepped.chunk_count]]
    /\ UNCHANGED <<utilsVars, chatVars, ingestVars, answerVars, healthVars>>

\* one invocation executes its next statement group; the others stand still
InvocationStep(p) ==
    /\ op = "concurrent"
    /\ calls[p].pc # "done"
    /\ calls' = [calls EXCEPT ![p] = FrameStep(calls[p])]
    /\ UNCHANGED <<utilsVars, chatVars, ingestVars, answerVars, healthVars>>

ConcurrentStep == \E p \in Invocations : InvocationStep(p)

---------------------------------------------------------------------------

(* The second definitions of chunk_by_semantic_sections (lines 314-400)    *)
(* and of chunk_text (lines 402-420).  They replace the first ones when    *)
(* the module is loaded, so they are what the import of ingest.py line 14  *)
(* binds and what ingest.py line 76 calls.                                 *)

\* line 333: the end of the match of section_pattern at p (re.MULTILINE), 0
\* when none: ^[A-Z][.)]?\s+[A-Z][^\n]* | ^[IVX]+[.)]?\s+[A-Z][^\n]* |
\* ^\d+[.)]?\s+[A-Z][^\n]*  (\s+ may cross line ends)
HeaderEnd2(s, p) ==
    LET r == SkipRoman(s, p)
        d == SkipDigits(s, p)
        t == IF IsUpper(Ch(s, p)) /\ ~IsRoman(Ch(s, p)) THEN p + 1
             ELSE IF r > p THEN r
             ELSE IF d > p THEN d
             ELSE 0
        a == IF IsDotParen(Ch(s, t)) THEN t + 1 ELSE t
        q == SkipSpace(s, a)
    IN  IF IsLineStart(s, p) /\ t # 0 /\ q > a /\ IsUpper(Ch(s, q))
        THEN LineEnd(s, q)
        ELSE 0

\* line 334: re.split(f'({section_pattern})', text, flags=re.MULTILINE): the
\* segments from the search position p on, body being where the pending
\* body segment starts
RECURSIVE SplitFrom2(_, _, _)
SplitFrom2(s, p, body) ==
    IF p > Len(s) THEN <<SubSeq(s, body, Len(s))>>
    ELSE LET e == HeaderEnd2(s, p)
             n == LineEnd(s, p)
         IN  IF e # 0
             THEN <<SubSeq(s, body, p - 1), SubSeq(s, p, e - 1)>> \o SplitFrom2(s, e, e)
             ELSE IF n > Len(s) THEN <<SubSeq(s, body, Len(s))>>
             ELSE SplitFrom2(s, n + 1, body)

SplitSections2(s) == SplitFrom2(s, 1, 1)

\* line 344: bool(re.match(section_pattern, section, flags=re.MULTILINE))
is_header2(section) == HeaderEnd2(section, 1) # 0

\* the chunk dict of lines 349-355, 373-379 and 390-396
MakeChunk2(acc, header) ==
    [ text      |-> Strip(acc),
      section   |-> Strip(header),
      type      |-> detect_section_type(acc),
      metadata  |-> extract_subject_info(acc),
      size      |-> Len(acc) ]

\* line 367: re.split(r'(?<=[.!?])\s+', current_chunk), from p on
RECURSIVE SplitSentences(_, _)
SplitSentences(s, p) ==
    LET Q == {q \in p..Len(s) :
                IsSpace(s[q]) /\ Ch(s, q - 1) \in {".", "!", "?"}}
    IN  IF Q = {} THEN <<SubSeq(s, p, Len(s))>>
        ELSE <<SubSeq(s, p, MinOf(Q) - 1)>>
                \o SplitSentences(s, SkipSpace(s, MinOf(Q)))

\* lines 370-386: the loop over sentences from the k-th on; its result is
\* the chunk list and the remainder (the new accumulator)
RECURSIVE SplitOversized2(_, _, _, _, _, _)
SplitOversized2(sentences, k, temp_chunk, out, header, max) ==
    IF k > Len(sentences)
    THEN [chunks |-> out, current_chunk |-> temp_chunk]
    ELSE LET sentence == sentences[k]
         IN  IF Len(temp_chunk) + Len(sentence) > max /\ Strip(temp_chunk) # <<>>
             THEN SplitOversized2(sentences, k + 1, sentence,
                                  Append(out, MakeChunk2(temp_chunk, header)),
                                  header, max)
             ELSE SplitOversized2(sentences, k + 1,
                                  temp_chunk \o <<" ">> \o sentence,
                                  out, header, max)

\* min_chunk_size and max_chunk_size of lines 316, 317
SecondMinChunkSize == 300

SecondMaxChunkSize == 800

\* lines 328-339: a call of the second chunk_by_semantic_sections
SemanticCall2 ==
    /\ op = "semantic_2"
    /\ pc = "call"
    /\ text' = clean_text(text)
    /\ sections' = SplitSections2(text')
    /\ i' = 1
    /\ current_chunk' = <<>>
    /\ current_section_header' = <<>>
    /\ chunks' = <<>>
    /\ pc' = "loop"
    /\ UNCHANGED <<op, raw_text, min_chunk_size, max_chunk_size, chunk_size, overlap,
                   chunk_count, start, text_length, window_starts, label, info,
                   first_pass, serviceVars>>

\* lines 419-420 and 328-339: chunk_text with use_semantic=True calls the
\* second chunk_by_semantic_sections with min_chunk_size=300 and
\* max_chunk_size=800, whatever chunk_size and overlap are
ChunkTextCall ==
    /\ op = "chunk_text"
    /\ pc = "call"
    /\ min_chunk_size' = SecondMinChunkSize
    /\ max_chunk_size' = SecondMaxChunkSize
    /\ text' = clean_text(text)
    /\ sections' = SplitSections2(text')
    /\ i' = 1
    /\ current_chunk' = <<>>
    /\ current_section_header' = <<>>
    /\ chunks' = <<>>
    /\ pc' = "loop"
    /\ UNCHANGED <<op, raw_text, chunk_size, overlap, chunk_count, start,
                   text_length, window_starts, label, info, first_pass, serviceVars>>

InWalk2 == op \in {"semantic_2", "chunk_text"} /\ pc = "loop" /\ i <= Len(sections)

\* lines 341-342
SkipBlankSegment2 ==
    /\ InWalk2
    /\ Strip(sections[i]) = <<>>
    /\ i' = i + 1
    /\ UNCHANGED <<op, raw_text, text, min_chunk_size, max_chunk_size, chunk_size,
                   overlap, pc, sections, current_chunk, current_section_header,
                   chunk_count, chunks, start, text_length, window_starts, label,
                   info, first_pass, serviceVars>>

\* lines 346-361: a header finalizes the accumulator
HeaderFinalize2 ==
    /\ InWalk2
    /\ Strip(sections[i]) # <<>>
    /\ is_header2(sections[i])
    /\ MeetsMinimum(current_chunk, min_chunk_size)
    /\ chunks' = Append(chunks, MakeChunk2(current_chunk, current_section_header))
    /\ current_section_header' = Strip(sections[i])
    /\ current_chunk' = <<>>
    /\ i' = i + 1
    /\ UNCHANGED <<op, raw_text, text, min_chunk_size, max_chunk_size, chunk_size,
                   overlap, pc, sections, chunk_count, start, text_length,
                   window_starts, label, info, first_pass, serviceVars>>

\* lines 346-348 and 359-361: a header met with an accumulator that is blank
\* or shorter than min_chunk_size; the accumulator is emptied
HeaderDiscard2 ==
    /\ InWalk2
    /\ Strip(sections[i]) # <<>>
    /\ is_header2(sections[i])
    /\ ~MeetsMinimum(current_chunk, min_chunk_size)
    /\ current_section_header' = Strip(sections[i])
    /\ current_chunk' = <<>>
    /\ i' = i + 1
    /\ UNCHANGED <<op, raw_text, text, min_chunk_size, max_chunk_size, chunk_size,
                   overlap, pc, sections, chunk_count, chunks, start, text_length,
                   window_starts, label, info, first_pass, serviceVars>>

\* lines 362-386: a body segment, with the split of an oversized accumulator
BodySegment2 ==
    /\ InWalk2
    /\ Strip(sections[i]) # <<>>
    /\ ~is_header2(sections[i])
    /\ LET grown == current_chunk \o <<"\n">> \o sections[i]
           split == SplitOversized2(SplitSentences(grown, 1), 1, <<>>, chunks,
                                    current_section_header, max_chunk_size)
       IN  IF Len(grown) > max_chunk_size
           THEN /\ chunks' = split.chunks
                /\ current_chunk' = split.current_chunk
           ELSE /\ current_chunk' = grown
                /\ UNCHANGED chunks
    /\ i' = i + 1
    /\ UNCHANGED <<op, raw_text, text, min_chunk_size, max_chunk_size, chunk_size,
                   overlap, pc, sections, current_section_header, chunk_count, start,
                   text_length, window_starts, label, info, first_pass, serviceVars>>

AtEnd2 == op \in {"semantic_2", "chunk_text"} /\ pc = "loop" /\ i > Len(sections)

\* lines 389-400: the last accumulator becomes the last chunk
FinishLastChunk2 ==
    /\ AtEnd2
    /\ MeetsMinimum(current_chunk, min_chunk_size)
    /\ chunks' = Append(chunks, MakeChunk2(current_chunk, current_section_header))
    /\ pc' = "done"
    /\ UNCHANGED <<op, raw_text, text, min_chunk_size, max_chunk_size, chunk_size,
                   overlap, sections, i, current_chunk, current_section_header,
                   chunk_count, start, text_length, window_starts, label, info,
                   first_pass, serviceVars>>

\* lines 389 and 400: the test fails and the list is returned as it is; the
\* accumulator is not used
FinishDrop2 ==
    /\ AtEnd2
    /\ ~MeetsMinimum(current_chunk, min_chunk_size)
    /\ pc' = "done"
    /\ UNCHANGED <<op, raw_text, text, min_chunk_size, max_chunk_size, chunk_size,
                   overlap, sections, i, current_chunk, current_section_header,
                   chunk_count, chunks, start, text_length, window_starts, label,
                   info, first_pass, serviceVars>>

---------------------------------------------------------------------------
(* chunk_text with use_semantic=False (lines 246-272)                      *)

\* the most iterations of the while loop of line 253 a behaviour follows
MaxWindows == 10

Smaller(a, b) == IF a < b THEN a ELSE b

Larger(a, b) == IF a < b THEN b ELSE a

\* text[a:b] of Python for 0-based a and b, negative ones counted from the end
PySlice(s, a, b) ==
    LET lo == IF a < 0 THEN Larger(a + Len(s), 0) ELSE Smaller(a, Len(s))
        hi == IF b < 0 THEN Larger(b + Len(s), 0) ELSE Smaller(b, Len(s))
    IN  IF lo >= hi THEN <<>> ELSE SubSeq(s, lo + 1, hi)

\* lines 247-251
FallbackCall ==
    /\ op = "fallback"
    /\ pc = "call"
    /\ text' = clean_text(text)
    /\ chunks' = <<>>
    /\ start' = 0
    /\ text_length' = Len(text')
    /\ chunk_count' = 0
    /\ window_starts' = <<>>
    /\ pc' = "loop"
    /\ UNCHANGED <<op, raw_text, min_chunk_size, max_chunk_size, chunk_size, overlap,
                   sections, i, current_chunk, current_section_header, label, info,
                   first_pass, serviceVars>>

\* FallbackWindow with start += chunk_size in place of line 270
FallbackWindow_NoOverlap ==
    /\ op = "fallback"
    /\ pc = "loop"
    /\ start < text_length
    /\ Len(window_starts) < MaxWindows
    /\ LET chunk == PySlice(text, start, start + chunk_size)
       IN  IF Strip(chunk) # <<>>
           THEN /\ chunks' = Append(chunks, MakeChunk(chunk, <<>>, chunk_count))
                /\ chunk_count' = chunk_count + 1
           ELSE UNCHANGED <<chunks, chunk_count>>
    /\ start' = start + chunk_size
    /\ window_starts' = Append(window_starts, start)
    /\ UNCHANGED <<op, raw_text, text, min_chunk_size, max_chunk_size, chunk_size,
                   overlap, pc, sections, i, current_chunk, current_section_header,
                   text_length, label, info, first_pass, serviceVars>>

\* lines 253-270: one iteration of the while loop (chunk_count is chunk_num)
FallbackWindow ==
    /\ op = "fallback"
    /\ pc = "loop"
    /\ start < text_length
    /\ Len(window_starts) < MaxWindows
    /\ LET chunk == PySlice(text, start, start + chunk_size)
       IN  IF Strip(chunk) # <<>>
           THEN /\ chunks' = Append(chunks, MakeChunk(chunk, <<>>, chunk_count))
                /\ chunk_count' = chunk_count + 1
           ELSE UNCHANGED <<chunks, chunk_count>>
    /\ start' = start + chunk_size - overlap
    /\ window_starts' = Append(window_starts, start)
    /\ UNCHANGED <<op, raw_text, text, min_chunk_size, max_chunk_size, chunk_size,
                   overlap, pc, sections, i, current_chunk, current_section_header,
                   text_length, label, info, first_pass, serviceVars>>

\* lines 253 and 272: the loop condition fails and the list is returned
FallbackReturn ==
    /\ op = "fallback"
    /\ pc = "loop"
    /\ start >= text_length
    /\ pc' = "done"
    /\ UNCHANGED <<op, raw_text, text, min_chunk_size, max_chunk_size, chunk_size,
                   overlap, sections, i, current_chunk, current_section_header,
                   chunk_count, chunks, start, text_length, window_starts, label,
                   info, first_pass, serviceVars>>

---------------------------------------------------------------------------
(* a call of detect_section_type on a span                                 *)

ClassifyCall ==
    /\ op = "classify"
    /\ pc = "call"
    /\ label' = detect_section_type(text)
    /\ pc' = "done"
    /\ UNCHANGED <<op, raw_text, text, min_chunk_size, max_chunk_size, chunk_size,
                   overlap, sections, i, current_chunk, current_section_header,
                   chunk_count, chunks, start, text_length, window_starts, info,
                   first_pass, serviceVars>>

---------------------------------------------------------------------------
(* SyllabusParser (app/utils/syllabus_parser.py)                           *)
(* An Optional[str] is <<>> for None and <<v>> for the string v.           *)

\* ([IVX]+|[0-9]{1,2}) under re.IGNORECASE at p
NumeralGroup(s, p) ==
    LET r == SkipRomanAnyCase(s, p)
    IN  IF r > p THEN <<SubSeq(s, p, r - 1)>>
        ELSE IF IsDigit(Ch(s, p))
        THEN <<SubSeq(s, p, IF IsDigit(Ch(s, p + 1)) THEN p + 1 ELSE p)>>
        ELSE <<>>

\* SEMESTER_PATTERN (line 21) at p; what ^SEMESTER\s+ matches, the
\* alternative before it, Semester:?\s*, matches with the same group
SemesterPatternGroup(s, p) ==
    LET lo == Lower(s)
        a  == p + 8
        b  == IF Ch(s, a) = ":" THEN a + 1 ELSE a
    IN  IF StartsWithAt(lo, p, <<"s", "e", "m", "-">>)
        THEN NumeralGroup(s, p + 4)
        ELSE IF StartsWithAt(lo, p, <<"s", "e", "m", "e", "s", "t", "e", "r">>)
        THEN NumeralGroup(s, SkipSpace(s, b))
        ELSE <<>>

\* lines 41-44
extract_semester_from_chunk(chunk_text) ==
    LET found == FirstGroup([p \in 1..Len(chunk_text) |->
                                SemesterPatternGroup(chunk_text, p)])
    IN  IF found = <<>> THEN <<>> ELSE <<Strip(found[1])>>

\* the end of COURSE_CODE_PATTERN (line 22) at p, 0 when there is no match
CourseCodePatternEnd(s, p) ==
    IF /\ \A k \in p..(p + 2) : IsUpper(Ch(s, k))
       /\ \A k \in (p + 3)..(p + 8) : IsDigit(Ch(s, k))
    THEN IF \A k \in (p + 9)..(p + 11) : IsDigit(Ch(s, k)) THEN p + 12 ELSE p + 9
    ELSE 0

\* lines 61-64
extract_course_code_from_chunk(chunk_text) ==
    LET Group(p) == IF CourseCodePatternEnd(chunk_text, p) # 0
                    THEN <<Strip(SubSeq(chunk_text, p,
                                        CourseCodePatternEnd(chunk_text, p) - 1))>>
                    ELSE <<>>
    IN  FirstGroup([p \in 1..Len(chunk_text) |-> Group(p)])

\* [A-Za-z]
IsLetter(c) == IsUpper(c) \/ IsLower(c)

\* [A-Za-z0-9\s&(),-]
IsNameChar(c) ==
    IsLetter(c) \/ IsDigit(c) \/ IsSpace(c) \/ c \in {"&", "(", ")", ",", "-"}

\* group 2 of the pattern of line 84 at p: after the code, blanks and one
\* of : – -, a letter and the rest of its line, all of it name characters
CourseNamePatternGroup(s, p) ==
    LET e  == CourseCodePatternEnd(s, p)
        w1 == SkipSpace(s, e)
        d  == IF Ch(s, w1) \in {":", "EN_DASH", "-"} THEN w1 + 1 ELSE w1
        n  == SkipSpace(s, d)
        z  == LineEnd(s, n)
    IN  IF /\ e # 0
           /\ IsLetter(Ch(s, n))
           /\ \A k \in n..(z - 1) : IsNameChar(s[k])
        THEN <<SubSeq(s, n, z - 1)>>
        ELSE <<>>

\* line 90: re.sub(r'\s+\([^)]*\).*$', '', name) for a name of one line
RemoveParenthesis(name) ==
    LET Q == {q \in 1..Len(name) :
                /\ IsSpace(name[q])
                /\ Ch(name, SkipSpace(name, q)) = "("
                /\ \E k \in (SkipSpace(name, q) + 1)..Len(name) : name[k] = ")"}
    IN  IF Q = {} THEN name ELSE SubSeq(name, 1, MinOf(Q) - 1)

\* line 91: re.sub(r'\s*Credits?.*$', '', name, flags=re.IGNORECASE) for a
\* name of one line
RemoveCredits(name) ==
    LET C == {c \in 1..Len(name) :
                StartsWithAt(Lower(name), c, <<"c", "r", "e", "d", "i", "t">>)}
    IN  IF C = {} THEN name
        ELSE SubSeq(name, 1, SkipSpaceBack(name, MinOf(C) - 1))

\* lines 84-94
extract_course_name_from_chunk(chunk_text) ==
    LET found == FirstGroup([p \in 1..Len(chunk_text) |->
                                CourseNamePatternGroup(chunk_text, p)])
        name  == RemoveCredits(RemoveParenthesis(Strip(found[1])))
    IN  IF found = <<>> THEN <<>>
        ELSE IF Len(name) > 2 THEN <<name>>
        ELSE <<>>

\* the pattern of line 113 with "unit" at u: the blanks before it go back to
\* the start of the text or hold a "\n"
UnitPatternGroup(s, u) ==
    LET w == SkipSpaceBack(s, u - 1) + 1
    IN  IF /\ StartsWithAt(Lower(s), u, <<"u", "n", "i", "t">>)
           /\ w = 1 \/ \E k \in w..(u - 1) : s[k] = "\n"
           /\ IsSpace(Ch(s, u + 4))
        THEN NumeralGroup(s, SkipSpace(s, u + 4))
        ELSE <<>>

\* lines 113-121
extract_unit_from_chunk(chunk_text) ==
    LET found == FirstGroup([u \in 1..Len(chunk_text) |->
                                UnitPatternGroup(chunk_text, u)])
    IN  IF found = <<>> THEN <<>>
        ELSE <<<<"U", "n", "i", "t", " ">> \o Strip(found[1])>>

\* lines 134-141, in the order of the dict
section_keywords ==
    << <<<<"o", "b", "j", "e", "c", "t", "i", "v", "e">>,
         { <<"c", "o", "u", "r", "s", "e", " ", "o", "b", "j", "e", "c", "t", "i", "v", "e">>,
           <<"o", "b", "j", "e", "c", "t", "i", "v", "e", "s">>,
           <<"a", "i", "m">> }>>,
       <<<<"o", "u", "t", "c", "o", "m", "e">>,
         { <<"c", "o", "u", "r", "s", "e", " ", "o", "u", "t", "c", "o", "m", "e">>,
           <<"c", "o", "1">>,
           <<"c", "o", "2">>,
           <<"l", "e", "a", "r", "n", "i", "n", "g", " ", "o", "u", "t", "c", "o", "m", "e">> }>>,
       <<<<"u", "n", "i", "t">>,
         { <<"u", "n", "i", "t", " ", "i">>,
           <<"u", "n", "i", "t", " ", "i", "i">>,
           <<"u", "n", "i", "t", " ", "i", "i", "i">>,
           <<"u", "n", "i", "t", " ", "i", "v">>,
           <<"u", "n", "i", "t", " ", "v">> }>>,
       <<<<"t", "e", "x", "t", "b", "o", "o", "k">>,
         { <<"t", "e", "x", "t", "b", "o", "o", "k">>,
           <<"t", "e", "x", "t", " ", "b", "o", "o", "k">>,
           <<"r", "e", "f", "e", "r", "e", "n", "c", "e">>,
           <<"s", "u", "g", "g", "e", "s", "t", "e", "d", " ", "r", "e", "a", "d", "i", "n", "g">> }>>,
       <<<<"e", "v", "a", "l", "u", "a", "t", "i", "o", "n">>,
         { <<"e", "v", "a", "l", "u", "a", "t", "i", "o", "n">>,
           <<"a", "s", "s", "e", "s", "s", "m", "e", "n", "t">>,
           <<"e", "x", "a", "m", "i", "n", "a", "t", "i", "o", "n">>,
           <<"m", "a", "r", "k", "s">>,
           <<"w", "e", "i", "g", "h", "t", "a", "g", "e">> }>>,
       <<<<"c", "o", "n", "t", "e", "n", "t">>,
         { <<"c", "o", "n", "t", "e", "n", "t">>,
           <<"s", "y", "l", "l", "a", "b", "u", "s">>,
           <<"c", "u", "r", "r", "i", "c", "u", "l", "u", "m">> }>> >>

\* lines 143-150
extract_section_type_from_chunk(chunk_text) ==
    LET hits == {r \in 1..Len(section_keywords) :
                    ContainsAny(Lower(chunk_text), section_keywords[r][2])}
    IN  IF hits = {} THEN General ELSE section_keywords[MinOf(hits)][1]

\* the values lines 229-233 assign, by the key lines 239-248 store them under
EnrichedFields(chunk_text) ==
    [ semester     |-> extract_semester_from_chunk(chunk_text),
      course_code  |-> extract_course_code_from_chunk(chunk_text),
      course_name  |-> extract_course_name_from_chunk(chunk_text),
      unit         |-> extract_unit_from_chunk(chunk_text),
      section_type |-> <<extract_section_type_from_chunk(chunk_text)>> ]

\* lines 226-250: a field that is not None and not '' replaces the entry of
\* its key, the other entries of the metadata are kept
enrich_chunk_metadata(chunk_dict) ==
    LET fields == EnrichedFields(chunk_dict.text)
        stored == {key \in DOMAIN fields :
                      fields[key] # <<>> /\ fields[key][1] # <<>>}
    IN  [chunk_dict EXCEPT !.metadata =
            [key \in (DOMAIN chunk_dict.metadata) \cup stored |->
                IF key \in stored THEN fields[key][1] ELSE chunk_dict.metadata[key]]]

\* a call of enrich_chunk_metadata on the chunk dict chunks[1]
EnrichCall ==
    /\ op = "enrich"
    /\ pc = "call"
    /\ chunks' = <<enrich_chunk_metadata(chunks[1])>>
    /\ pc' = "done"
    /\ UNCHANGED <<op, raw_text, text, min_chunk_size, max_chunk_size, chunk_size,
                   overlap, sections, i, current_chunk, current_section_header,
                   chunk_count, start, text_length, window_starts, label, info,
                   first_pass, serviceVars>>

---------------------------------------------------------------------------
(* a call of extract_subject_info on a span                                *)

ExtractCall ==
    /\ op = "extract"
    /\ pc = "call"
    /\ info' = extract_subject_info(text)
    /\ pc' = "done"
    /\ UNCHANGED <<op, raw_text, text, min_chunk_size, max_chunk_size, chunk_size,
                   overlap, sections, i, current_chunk, current_section_header,
                   chunk_count, chunks, start, text_length, window_starts, label,
                   first_pass, serviceVars>>

---------------------------------------------------------------------------
(* clean_text called on a text, then on the text it returned               *)

CleanCall ==
    /\ op = "clean"
    /\ pc = "call"
    /\ text' = clean_text(text)
    /\ first_pass' = text'
    /\ pc' = "again"
    /\ UNCHANGED <<op, raw_text, min_chunk_size, max_chunk_size, chunk_size, overlap,
                   sections, i, current_chunk, current_section_header, chunk_count,
                   chunks, start, text_length, window_starts, label, info,
                   serviceVars>>

CleanAgain ==
    /\ op = "clean"
    /\ pc = "again"
    /\ text' = clean_text(text)
    /\ pc' = "done"
    /\ UNCHANGED <<op, raw_text, min_chunk_size, max_chunk_size, chunk_size, overlap,
                   sections, i, current_chunk, current_section_header, chunk_count,
                   chunks, start, text_length, window_starts, label, info,
                   first_pass, serviceVars>>

---------------------------------------------------------------------------
(* The calls a behaviour starts from.                                      *)

\* the most lines of a generated input text
MaxLines == 4

\* the most fragments of a generated span given to the classifier
MaxFragments == 2

\* '\n'.join(lines)
RECURSIVE JoinLines(_)
JoinLines(lines) ==
    IF Len(lines) = 0 THEN <<>>
    ELSE IF Len(lines) = 1 THEN lines[1]
    ELSE lines[1] \o <<"\n">> \o JoinLines(Tail(lines))

\* ' '.join(fragments)
RECURSIVE JoinWords(_)
JoinWords(ws) ==
    IF Len(ws) = 0 THEN <<>>
    ELSE IF Len(ws) = 1 THEN ws[1]
    ELSE ws[1] \o <<" ">> \o JoinWords(Tail(ws))

\* the lines input texts are made of: two headers, a short and a long body
\* line, a blank line
InputLines ==
    { <<"1", ".", " ", "A">>,
      <<"I", "I", ")", " ", "b">>,
      <<"x", "y">>,
      <<"w", "w", "w", "w", "w", "w">>,
      <<>> }

InputTexts ==
    {JoinLines(ls) : ls \in UNION {[1..n -> InputLines] : n \in 0..MaxLines}}

\* inputs of whitespace only
BlankTexts ==
    { <<>>, <<" ">>, <<"\n">>, <<"\t">>, <<" ", "\n", "\t", "\n", "\n", " ">>,
      <<"\n", "\n", "\n", "\n">> }

\* the first end-to-end scenario
ObjectivesText ==
    <<"1", ".", " ", "C", "o", "u", "r", "s", "e", " ", "O", "b", "j", "e",
      "c", "t", "i", "v", "e", "s", "\n", "T", "o", " ", "t", "e", "a",
      "c", "h", " ", "b", "a", "s", "i", "c", "s", ".", "\n", "\n", "2",
      ".", " ", "E", "v", "a", "l", "u", "a", "t", "i", "o", "n", "\n",
      "M", "a", "r", "k", "s", ":", " ", "4", "0", " ", "i", "n", "t", "e",
      "r", "n", "a", "l", ",", " ", "6", "0", " ", "e", "x", "t", "e", "r",
      "n", "a", "l", ".">>

\* 2000 and 1200 repeated characters without whitespace
RepeatedText(n) == [k \in 1..n |-> "x"]

\* min_chunk_size and max_chunk_size of lines 113, 114 and 244
DefaultMinChunkSize == 250

DefaultMaxChunkSize == 1000

\* chunk_size and overlap of lines 227 and 228
DefaultChunkSize == 500

DefaultOverlap == 100

\* <<min_chunk_size, max_chunk_size>> of the generated calls
SemanticSizes == {<<0, 8>>, <<5, 8>>, <<8, 12>>}

\* <<chunk_size, overlap>> of the generated calls
FallbackSizes == {<<5, 1>>, <<8, 2>>, <<3, 3>>, <<2, 3>>}

SemanticInput(t, min, max) ==
    [op |-> "semantic", text |-> t, min_chunk_size |-> min, max_chunk_size |-> max,
     chunk_size |-> 0, overlap |-> 0]

FallbackInput(t, width, lap) ==
    [op |-> "fallback", text |-> t, min_chunk_size |-> 0, max_chunk_size |-> 0,
     chunk_size |-> width, overlap |-> lap]

ClassifyInput(t) ==
    [op |-> "classify", text |-> t, min_chunk_size |-> 0, max_chunk_size |-> 0,
     chunk_size |-> 0, overlap |-> 0]

\* the fragments spans are made of
SpanFragments ==
    { <<"|">>, <<"BOX_H">>, <<"BOX_DL">>, <<"\t", "\t", "\t", "\t">>,
      <<"C", "r", "e", "d", "i", "t", "s">>,
      <<"m", "o", "d", "u", "l", "e">>,
      <<"o", "u", "t", "c", "o", "m", "e", "s">>,
      <<"b", "o", "o", "k">>,
      <<"E", "v", "a", "l", "u", "a", "t", "i", "o", "n">>,
      <<"m", "a", "r", "k", "s">>,
      <<"p", "r", "e", "r", "e", "q", "u", "i", "s", "i", "t", "e">>,
      <<"1", "2", " ", "M", "a", "y", " ", "2", "0", "2", "4">>,
      <<"3", " ", "h", "r", "s", ".">>,
      <<"a", "b", "c">> }

Spans ==
    {JoinWords(fs) : fs \in UNION {[1..n -> SpanFragments] : n \in 0..MaxFragments}}

ExtractInput(t) ==
    [op |-> "extract", text |-> t, min_chunk_size |-> 0, max_chunk_size |-> 0,
     chunk_size |-> 0, overlap |-> 0]

\* the fragments the spans given to extract_subject_info are made of
InfoFragments ==
    { <<>>,
      <<"C", "S", "-", "3", "0", "1">>,
      <<"N", "a", "m", "e", ":">>,
      <<"T", "i", "t", "l", "e">>,
      <<"C", "r", "e", "d", "i", "t", "s", ":">>,
      <<"S", "e", "m", "e", "s", "t", "e", "r">>,
      <<"3", " ", "h", "r", "s", "/", "w", "e", "e", "k">>,
      <<"T", "y", "p", "e", ":">>,
      <<"C", "o", "r", "e", "\n">>,
      <<"4">>,
      <<"V", "I", "I">>,
      <<"a", "b", "c">> }

InfoSpans ==
    {JoinWords(fs) : fs \in UNION {[1..n -> InfoFragments] : n \in 0..MaxFragments}}

\* the span of the metadata example
CourseSpan ==
    <<"C", "O", "M", "2", "2", "4", "0", "0", "1", ":", " ", "D", "e", "e", "p",
      " ", "L", "e", "a", "r", "n", "i", "n", "g", "\n", "C", "r", "e", "d", "i",
      "t", "s", ":", " ", "4", "\n", "S", "e", "m", "e", "s", "t", "e", "r", ":",
      " ", "V", "I", "I", "\n", "U", "n", "i", "t", " ", "I", " ", "-", " ", "I",
      "n", "t", "r", "o", "\n", ".", ".", ".">>

\* texts with labelled fields, for the metadata of the chunks
LabelledTexts ==
    { <<"T", "y", "p", "e", " ", "C", "o", "r", "e", " ", "l", "a", "b">>,
      <<"N", "a", "m", "e", ":", " ", "A", "I", "\n", "C", "S", "3", "0", "1">>,
      <<"|", " ", "N", "a", "m", "e", ":", " ", "\n", "1", ".", " ", "A", "\n",
        "x", "y">>,
      CourseSpan }

\* the chunk dict given to enrich_chunk_metadata is the one the fallback
\* chunker builds for a window t
EnrichInput(t) ==
    [op |-> "enrich", text |-> t, min_chunk_size |-> 0, max_chunk_size |-> 0,
     chunk_size |-> 0, overlap |-> 0]

\* the fragments the texts of the chunk dicts given to enrich_chunk_metadata
\* are made of
EnrichFragments ==
    { <<>>,
      <<"C", "O", "M", "2", "2", "4", "0", "0", "1">>,
      <<"C", "O", "M", "2", "2", "4", "0", "0", "1", ":">>,
      <<"D", "e", "e", "p", " ", "L", "e", "a", "r", "n", "i", "n", "g">>,
      <<"(", "3", "-", "0", "-", "2", ")">>,
      <<"C", "r", "e", "d", "i", "t", "s", " ", "4">>,
      <<"S", "E", "M", "-", "V", "I", "I">>,
      <<"S", "e", "m", "e", "s", "t", "e", "r", ":", " ", "7">>,
      <<"\n", "U", "n", "i", "t", " ", "I", "I">>,
      <<"a", "i", "m", ".">> }

EnrichSpans ==
    {JoinWords(fs) : fs \in UNION {[1..n -> EnrichFragments] : n \in 0..MaxFragments}}

CleanInput(t) ==
    [op |-> "clean", text |-> t, min_chunk_size |-> 0, max_chunk_size |-> 0,
     chunk_size |-> 0, overlap |-> 0]

\* the most lines of a text given to clean_text alone
MaxCleanLines == 3

\* the lines of these texts: blank, plain, page numbers (one indented),
\* dashes only, a page label, a table row, a line with runs of blanks
CleanLines ==
    { <<>>,
      <<"a", "b">>,
      <<" ", "-", "1">>,
      <<"1", "2">>,
      <<"-", " ", "3", " ", "-">>,
      <<"-", "-">>,
      <<"P", "a", "g", "e", " ", "2">>,
      <<"|", " ", "a", " ", " ", "b">>,
      <<" ", "x", " ", " ", "y", " ">> }

CleanTexts ==
    {JoinLines(ls) : ls \in UNION {[1..n -> CleanLines] : n \in 0..MaxCleanLines}}

Semantic2Input(t, min, max) ==
    [op |-> "semantic_2", text |-> t, min_chunk_size |-> min, max_chunk_size |-> max,
     chunk_size |-> 0, overlap |-> 0]

\* chunk_text(t, chunk_size=500, overlap=100, use_semantic=True) of ingest.py
\* lines 76-81; min_chunk_size and max_chunk_size are set by the call
ChunkTextInput(t) ==
    [op |-> "chunk_text", text |-> t, min_chunk_size |-> 0, max_chunk_size |-> 0,
     chunk_size |-> DefaultChunkSize, overlap |-> DefaultOverlap]

\* the most lines of a generated text given to the second
\* chunk_by_semantic_sections
MaxLines2 == 3

\* the lines of these texts: two headers of the second pattern, a short
\* body line, a body line of three sentences, a long body line, a blank line
InputLines2 ==
    { <<"1", ".", " ", "A">>,
      <<"B", " ", "C", "d">>,
      <<"x", "y">>,
      <<"a", ".", " ", "b", "b", "!", " ", "c">>,
      <<"w", "w", "w", "w", "w", "w">>,
      <<>> }

InputTexts2 ==
    {JoinLines(ls) : ls \in UNION {[1..n -> InputLines2] : n \in 0..MaxLines2}}

\* the texts given to the entry point: a section of 300 characters, a header
\* and a short section; 500 and 400 characters in two sentences; 2000
\* characters; a short text; the metadata example
ChunkTextTexts ==
    { RepeatedText(300) \o <<"\n", "1", ".", " ", "A", "\n", "x", "y">>,
      <<"x", "y">> \o <<"\n", "1", ".", " ", "A", "\n">> \o RepeatedText(300),
      RepeatedText(500) \o <<".", " ">> \o RepeatedText(400),
      RepeatedText(2000),
      <<"x", "y">>,
      CourseSpan }

(* ChatService.answer_question (app/services/chat_service.py)              *)
(* A score is a number of ten-thousandths: 3500 is the float 0.35.  A      *)
(* match is [id, score]: id is its position in the list the query          *)
(* returned.  A source is [score, chunk_index], the two entries of         *)
(* source_info that depend on the scores and the order of the matches.     *)

\* line 77
MIN_SCORE_THRESHOLD == 3500

\* lines 183 and 185: the bounds of "high" and of "medium"
HighScore == 6000

MediumScore == 4000

\* line 85 and rule 3 of the system prompt (lines 135-136)
NotCovered ==
    "This topic is not covered in your syllabus for the selected department and year."

\* line 101: round(score, 3), for a score that is not half-way between two
\* thousandths
Round3(score) == ((score + 5) \div 10) * 10

\* PassesThreshold for a threshold of 0
PassesThreshold_NoThreshold(m) == m.score >= 0

\* line 78
PassesThreshold(m) == m.score >= MIN_SCORE_THRESHOLD

\* lines 94-118: the source_info of each filtered match, in order
BuildSources(filtered) ==
    [k \in 1..Len(filtered) |-> [score |-> Round3(filtered[k].score), chunk_index |-> k]]

\* line 193: sorted(sources, key=lambda x: x["score"], reverse=True); the
\* sort is stable, sources of equal score keep their order
SortedByScore(srcs) ==
    LET Before(a, b) == \/ srcs[a].score > srcs[b].score
                        \/ srcs[a].score = srcs[b].score /\ a < b
        Rank(a) == Cardinality({b \in 1..Len(srcs) : Before(b, a)}) + 1
    IN  [r \in 1..Len(srcs) |-> srcs[CHOOSE a \in 1..Len(srcs) : Rank(a) = r]]

\* line 193: [:3]
TopThree(srcs) == SubSeq(srcs, 1, IF Len(srcs) < 3 THEN Len(srcs) ELSE 3)

\* TopScore taken from the rounded scores of the sources
TopScore_Rounded(filtered) == MaxOf({Round3(filtered[k].score) : k \in 1..Len(filtered)})

\* line 181: max(m["score"] for m in filtered_matches)
TopScore(filtered) == MaxOf({filtered[k].score : k \in 1..Len(filtered)})

\* lines 183-188
Confidence(top_score) ==
    IF top_score >= HighScore THEN "high"
    ELSE IF top_score >= MediumScore THEN "medium"
    ELSE "low"

\* what the model may answer (line 178): any text, the sentence of rule 3
\* of its prompt included
LlmAnswers == {"an answer made of the excerpts", NotCovered}

\* lines 51-52 or 68-72: create_embedding or the query raises
ChatQueryRaises ==
    /\ op = "chat"
    /\ pc = "call"
    /\ pc' = "raised"
    /\ matches' = <<>>
    /\ UNCHANGED <<op, utilsLocals, calls, ingestVars, answerVars, healthVars,
                   filtered_matches, sources, confidence,
                   answer, llm_calls>>

\* lines 51-79: the query returned matches, the threshold is applied
ChatFilter ==
    /\ op = "chat"
    /\ pc = "call"
    /\ filtered_matches' = SelectSeq(matches, PassesThreshold)
    /\ pc' = "filtered"
    /\ UNCHANGED <<op, utilsLocals, calls, ingestVars, answerVars, healthVars,
                   matches, sources, confidence, answer,
                   llm_calls>>

\* lines 81-88
ChatNoMatch ==
    /\ op = "chat"
    /\ pc = "filtered"
    /\ filtered_matches = <<>>
    /\ answer' = NotCovered
    /\ sources' = <<>>
    /\ confidence' = "low"
    /\ pc' = "done"
    /\ UNCHANGED <<op, utilsLocals, calls, ingestVars, answerVars, healthVars,
                   matches, filtered_matches, llm_calls>>

\* lines 90-127
ChatBuildContext ==
    /\ op = "chat"
    /\ pc = "filtered"
    /\ filtered_matches # <<>>
    /\ sources' = BuildSources(filtered_matches)
    /\ pc' = "context"
    /\ UNCHANGED <<op, utilsLocals, calls, ingestVars, answerVars, healthVars,
                   matches, filtered_matches, confidence,
                   answer, llm_calls>>

\* lines 165-178: the completion is requested and arrives
ChatGenerate ==
    /\ op = "chat"
    /\ pc = "context"
    /\ llm_calls' = llm_calls + 1
    /\ answer' \in LlmAnswers
    /\ pc' = "generated"
    /\ UNCHANGED <<op, utilsLocals, calls, ingestVars, answerVars, healthVars,
                   matches, filtered_matches, sources,
                   confidence>>

\* lines 167-175: the completion is requested and raises
ChatGenerateRaises ==
    /\ op = "chat"
    /\ pc = "context"
    /\ llm_calls' = llm_calls + 1
    /\ pc' = "raised"
    /\ UNCHANGED <<op, utilsLocals, calls, ingestVars, answerVars, healthVars,
                   matches, filtered_matches, sources,
                   confidence, answer>>

\* ChatReturn without the slice [:3] of line 193
ChatReturn_NoLimit ==
    /\ op = "chat"
    /\ pc = "generated"
    /\ confidence' = Confidence(TopScore(filtered_matches))
    /\ sources' = SortedByScore(sources)
    /\ pc' = "done"
    /\ UNCHANGED <<op, utilsLocals, calls, ingestVars, answerVars, healthVars,
                   matches, filtered_matches, answer,
                   llm_calls>>

\* lines 180-200
ChatReturn ==
    /\ op = "chat"
    /\ pc = "generated"
    /\ confidence' = Confidence(TopScore(filtered_matches))
    /\ sources' = TopThree(SortedByScore(sources))
    /\ pc' = "done"
    /\ UNCHANGED <<op, utilsLocals, calls, ingestVars, answerVars, healthVars,
                   matches, filtered_matches, answer,
                   llm_calls>>

\* the lists the query may return: at most MaxMatches matches, in any order
MaxMatches == 4

ScoreValues == {3496, 3500, 3996, 4000, 6000}

MatchLists ==
    UNION { { [k \in 1..n |-> [id |-> k, score |-> f[k]]] : f \in [1..n -> ScoreValues] } :
            n \in 0..MaxMatches }

ChatInput ==
    [op |-> "chat", text |-> <<>>, min_chunk_size |-> 0, max_chunk_size |-> 0,
     chunk_size |-> 0, overlap |-> 0]

---------------------------------------------------------------------------

(* POST /ingest: validate_admin_token and ingest_syllabus                  *)
(* (app/api/routes/ingest.py), PineconeService.upsert_vectors              *)
(* (app/services/pinecone_service.py).  The answers of the collaborators   *)
(* (PDF download and extraction, embeddings, index.upsert) are chosen      *)
(* nondeterministically: each returns or raises.                           *)

\* get_settings().api_secret_key (line 34), the configured admin secret
api_secret_key == <<"k", "1">>

\* the prefix looked for at line 30
BearerPrefix == <<"B", "e", "a", "r", "e", "r", " ">>

\* line 30: not authorization or not authorization.startswith("Bearer ")
MissingOrInvalidHeader ==
    IF authorization = <<>> \/ authorization = <<<<>>>> THEN TRUE
    ELSE ~StartsWithAt(authorization[1], 1, BearerPrefix)

\* line 33: authorization[7:]
token == SubSeq(authorization[1], 8, Len(authorization[1]))

\* lines 30-31
IngestUnauthorized ==
    /\ op = "ingest"
    /\ pc = "call"
    /\ MissingOrInvalidHeader
    /\ status_code' = 401
    /\ pc' = "done"
    /\ UNCHANGED <<op, utilsLocals, calls, chatVars, ingestVars, response, healthVars>>

\* lines 33-37
IngestForbidden ==
    /\ op = "ingest"
    /\ pc = "call"
    /\ ~MissingOrInvalidHeader
    /\ token # api_secret_key
    /\ status_code' = 403
    /\ pc' = "done"
    /\ UNCHANGED <<op, utilsLocals, calls, chatVars, ingestVars, response, healthVars>>

\* IngestAuthorized without the comparison of line 36
IngestAuthorized_AnyBearer ==
    /\ op = "ingest"
    /\ pc = "call"
    /\ ~MissingOrInvalidHeader
    /\ pc' = "fetch"
    /\ UNCHANGED <<op, utilsLocals, calls, chatVars, ingestVars, answerVars, healthVars>>

\* lines 30-39 and 41-68: the dependency returns and the handler starts
IngestAuthorized ==
    /\ op = "ingest"
    /\ pc = "call"
    /\ ~MissingOrInvalidHeader
    /\ token = api_secret_key
    /\ pc' = "fetch"
    /\ UNCHANGED <<op, utilsLocals, calls, chatVars, ingestVars, answerVars, healthVars>>

\* a step of the pipeline ran and returned, or raised
Ran(step, ok) == Append(steps, [step |-> step, ok |-> ok])

\* lines 128-130: the except clause answers 500
Answer500 == status_code' = 500 /\ pc' = "done"

\* line 71 (and 128-130)
IngestFetch ==
    /\ op = "ingest"
    /\ pc = "fetch"
    /\ \E ok \in BOOLEAN :
          /\ steps' = Ran("fetch", ok)
          /\ IF ok THEN pc' = "extract" /\ UNCHANGED status_code ELSE Answer500
    /\ UNCHANGED <<op, utilsLocals, calls, chatVars, authorization, request,
                   metadata_list, upserted, response, healthVars>>

\* line 74 (and 128-130)
IngestExtract ==
    /\ op = "ingest"
    /\ pc = "extract"
    /\ \E ok \in BOOLEAN :
          /\ steps' = Ran("extract", ok)
          /\ IF ok THEN pc' = "chunk" /\ UNCHANGED status_code ELSE Answer500
    /\ UNCHANGED <<op, utilsLocals, calls, chatVars, authorization, request,
                   metadata_list, upserted, response, healthVars>>

\* the accumulators and section headers of the chunks chunk_text may build
IngestChunkSources ==
    { <<>>,
      << <<<<"\n", "x", "y">>, <<>>>> >>,
      << <<<<"\n">> \o CourseSpan, <<"1", ".", " ", "A">>>>,
         <<<<"\n", "N", "a", "m", "e", ":", " ", "A", "I", "\n", "C",
            "S", "3", "0", "1", "\n", "T", "y", "p", "e", " ", "C", "o",
            "r", "e", " ", "l", "a", "b">>, <<>>>> >>,
      << <<<<"\n", "S", "e", "m", "e", "s", "t", "e", "r", ":", " ",
            "I", "I", "\n", "C", "r", "e", "d", "i", "t", "s", " ", "4">>,
           <<"B", " ", "C", "d">>>>,
         <<<<"\n", "x", "y">>, <<"1", ".", " ", "A">>>>,
         <<<<"\n">> \o CourseSpan, <<>>>> >> }

\* the lists chunk_text may return (the chunk dicts of lines 349-355)
IngestChunkLists ==
    { [k \in 1..Len(built) |-> MakeChunk2(built[k][1], built[k][2])] :
        built \in IngestChunkSources }

\* IngestChunk without the test of lines 83-84
IngestChunk_NoEmptyTest ==
    /\ op = "ingest"
    /\ pc = "chunk"
    /\ \/ \E returned \in IngestChunkLists :
             /\ chunks' = returned
             /\ steps' = Ran("chunk", TRUE)
             /\ pc' = "embed" /\ UNCHANGED status_code
       \/ /\ steps' = Ran("chunk", FALSE)
          /\ Answer500 /\ UNCHANGED chunks
    /\ UNCHANGED <<op, utilsOthers, calls, chatVars, authorization, request,
                   metadata_list, upserted, response, healthVars>>

\* lines 76-84 (and 128-130): chunk_text returns a list, and an empty one
\* raises; or chunk_text itself raises
IngestChunk ==
    /\ op = "ingest"
    /\ pc = "chunk"
    /\ \/ \E returned \in IngestChunkLists :
             /\ chunks' = returned
             /\ steps' = Ran("chunk", TRUE)
             /\ IF returned # <<>> THEN pc' = "embed" /\ UNCHANGED status_code
                ELSE Answer500
       \/ /\ steps' = Ran("chunk", FALSE)
          /\ Answer500 /\ UNCHANGED chunks
    /\ UNCHANGED <<op, utilsOthers, calls, chatVars, authorization, request,
                   metadata_list, upserted, response, healthVars>>

\* the keys of the base metadata of lines 96-105
BaseKeys ==
    {"dept", "year", "doc_type", "source", "text", "section", "chunk_type",
     "chunk_size"}

\* lines 96-105
BaseMetadata(chunk_dict) ==
    [key \in BaseKeys |->
        CASE key = "dept"       -> request.dept
          [] key = "year"       -> request.year
          [] key = "doc_type"   -> "syllabus"
          [] key = "source"     -> "admin_upload"
          [] key = "text"       -> chunk_dict.text
          [] key = "section"    -> chunk_dict.section
          [] key = "chunk_type" -> chunk_dict.type
          [] key = "chunk_size" -> chunk_dict.size]

\* dict.update (line 109): the keys of extra replace those of base
Update(base, extra) ==
    [key \in DOMAIN base \cup DOMAIN extra |->
        IF key \in DOMAIN extra THEN extra[key] ELSE base[key]]

\* ChunkMetadata with the extracted semester merged under the key year
ChunkMetadata_SemesterAsYear(chunk_dict) ==
    LET extra == chunk_dict.metadata
        renamed ==
            [key \in {IF k = "semester" THEN "year" ELSE k : k \in DOMAIN extra} |->
                IF key = "year" THEN extra["semester"] ELSE extra[key]]
    IN  Update(BaseMetadata(chunk_dict), renamed)

\* lines 94-111: the metadata of one chunk; an empty dict is falsy (line 108)
ChunkMetadata(chunk_dict) ==
    IF DOMAIN chunk_dict.metadata # {}
    THEN Update(BaseMetadata(chunk_dict), chunk_dict.metadata)
    ELSE BaseMetadata(chunk_dict)

\* lines 87-111 (and 128-130): the embeddings are requested, then the
\* metadata are built
IngestEmbed ==
    /\ op = "ingest"
    /\ pc = "embed"
    /\ \E ok \in BOOLEAN :
          /\ steps' = Ran("embed", ok)
          /\ IF ok
             THEN /\ metadata_list' = [k \in 1..Len(chunks) |-> ChunkMetadata(chunks[k])]
                  /\ pc' = "upsert"
                  /\ UNCHANGED status_code
             ELSE Answer500 /\ UNCHANGED metadata_list
    /\ UNCHANGED <<op, utilsLocals, calls, chatVars, authorization, request,
                   upserted, response, healthVars>>

\* pinecone_service.py line 62: str(uuid.uuid4()); the k-th identifier drawn
\* by the request differs from the others
uuid4(k) == <<"u", "u", "i", "d", "4", "_", <<"a", "b", "c", "d", "e">>[k]>>

\* pinecone_service.py line 62: f"{metadata['dept']}-{metadata['year']}-{uuid.uuid4()}"
vector_id(metadata, k) ==
    metadata["dept"] \o <<"-">> \o metadata["year"] \o <<"-">> \o uuid4(k)

\* pinecone_service.py lines 58-66
vectors_to_upsert ==
    [k \in 1..Len(metadata_list) |->
        [id |-> vector_id(metadata_list[k], k), metadata |-> metadata_list[k]]]

\* lines 114-130 and pinecone_service.py lines 58-78: the vectors are
\* upserted (one batch, for fewer than 100 vectors) and the answer is built
IngestUpsert ==
    /\ op = "ingest"
    /\ pc = "upsert"
    /\ \E ok \in BOOLEAN :
          /\ steps' = Ran("upsert", ok)
          /\ IF ok
             THEN /\ upserted' = vectors_to_upsert
                  /\ response' = [success |-> TRUE,
                                  chunks_processed |-> Len(chunks),
                                  vectors_stored |-> Len(vectors_to_upsert)]
                  /\ status_code' = 200
                  /\ pc' = "done"
             ELSE Answer500 /\ UNCHANGED <<upserted, response>>
    /\ UNCHANGED <<op, utilsLocals, calls, chatVars, authorization, request,
                   metadata_list, healthVars>>

\* the Authorization headers of the requests: absent, or one of the values
Authorizations ==
    { <<>>,
      <<<<>>>>,
      <<<<"B", "e", "a", "r", "e", "r", " ", "k", "1">>>>,
      <<<<"B", "e", "a", "r", "e", "r", " ", "k", "2">>>>,
      <<<<"b", "e", "a", "r", "e", "r", " ", "k", "1">>>>,
      <<<<"B", "e", "a", "r", "e", "r", " ", " ", "k", "1">>>>,
      <<<<"B", "e", "a", "r", "e", "r", " ", "k", "1", " ">>>>,
      <<<<"B", "a", "s", "i", "c", " ", "k", "1">>>>,
      <<<<"B", "e", "a", "r", "e", "r", " ">>>>,
      <<<<"B", "e", "a", "r", "e", "r", "k", "1">>>>,
      <<<<"k", "1">>>> }

Requests ==
    {[dept |-> d, year |-> y] : d \in {<<"C", "S">>, <<"I", "T">>},
                                y \in {<<"2", "0", "2", "4">>, <<"2", "0", "2", "5">>}}

IngestInput ==
    [op |-> "ingest", text |-> <<>>, min_chunk_size |-> 0, max_chunk_size |-> 0,
     chunk_size |-> 0, overlap |-> 0]

---------------------------------------------------------------------------
(* GET /: health_check (app/main.py lines 29-65)                           *)

\* dependencies.py lines 13-21 (lru_cache): no instance yet, or the instance
\* of an earlier request with the flag its constructor set
CachedServices == {"none", "connected", "not_connected"}

\* pinecone_service.py lines 17-23: the constructor lists the indexes, and
\* sets _connected = True when that did not raise
PineconeConstructed(reachable) == IF reachable THEN "connected" ELSE "not_connected"

\* embedding_service.py lines 9-17: the constructor builds the client, and
\* sets _connected = True when that did not raise; it sends no request
EmbeddingConstructed(raised) == IF raised THEN "not_connected" ELSE "connected"

\* pinecone_service.py lines 25-27 and embedding_service.py lines 19-21
is_connected(svc) == svc = "connected"

\* lines 57-62
HealthStatus(p_ok, o_ok) ==
    IF p_ok /\ o_ok THEN "healthy"
    ELSE IF p_ok \/ o_ok THEN "degraded"
    ELSE "unhealthy"

\* lines 32-45: get_pinecone_service() returns the cached instance or
\* constructs one; Pinecone(api_key=...) (pinecone_service.py line 10) is
\* outside the constructor's try block, so when it raises there is no
\* instance and the except clause of line 43 leaves pinecone_ok False
HealthCheckPinecone ==
    /\ op = "health"
    /\ pc = "call"
    /\ IF pinecone_svc = "none"
       THEN \/ /\ pinecone_svc' = "none"
               /\ pinecone_ok' = FALSE
            \/ /\ pinecone_svc' = PineconeConstructed(pinecone_up)
               /\ pinecone_ok' = is_connected(PineconeConstructed(pinecone_up))
       ELSE /\ pinecone_ok' = is_connected(pinecone_svc)
            /\ UNCHANGED pinecone_svc
    /\ pc' = "openai"
    /\ UNCHANGED <<op, utilsLocals, calls, chatVars, ingestVars, answerVars,
                   pinecone_up, openai_up, embedding_svc, openai_ok>>

\* lines 47-54: get_embedding_service() returns the cached instance or
\* constructs one
HealthCheckOpenAI ==
    /\ op = "health"
    /\ pc = "openai"
    /\ IF embedding_svc = "none"
       THEN \E raised \in BOOLEAN :
               /\ embedding_svc' = EmbeddingConstructed(raised)
               /\ openai_ok' = is_connected(EmbeddingConstructed(raised))
       ELSE /\ openai_ok' = is_connected(embedding_svc)
            /\ UNCHANGED embedding_svc
    /\ pc' = "status"
    /\ UNCHANGED <<op, utilsLocals, calls, chatVars, ingestVars, answerVars,
                   pinecone_up, openai_up, pinecone_svc, pinecone_ok>>

\* lines 56-68
HealthReturn ==
    /\ op = "health"
    /\ pc = "status"
    /\ response' = [status |-> HealthStatus(pinecone_ok, openai_ok),
                    pinecone_connected |-> pinecone_ok,
                    openai_connected |-> openai_ok]
    /\ status_code' = 200
    /\ pc' = "done"
    /\ UNCHANGED <<op, utilsLocals, calls, chatVars, ingestVars, healthVars>>

HealthInput ==
    [op |-> "health", text |-> <<>>, min_chunk_size |-> 0, max_chunk_size |-> 0,
     chunk_size |-> 0, overlap |-> 0]

---------------------------------------------------------------------------

\* the texts and sizes of the invocations in progress at the same time
ConcurrentTexts ==
    { <<"1", ".", " ", "A", "\n", "w", "w", "w", "w", "w", "w", "\n",
        "I", "I", ")", " ", "b", "\n", "x", "y">>,
      <<"w", "w", "w", "w", "w", "w", "\n", "x", "y", "\n", "\n", "x", "y">>,
      <<"x", "y", "\n", "1", ".", " ", "A", "\n", "w", "w", "w", "w", "w", "w">>,
      <<"w", "w", "w", "w", "w", "w", "\n", "1", ".", " ", "A", "\n", "x", "y">> }

ConcurrentSizes == {<<5, 8>>, <<0, 8>>}

ConcurrentCalls ==
    { [p \in Invocations |-> CallFrame(t[p], c[p][1], c[p][2])] :
          t \in [Invocations -> ConcurrentTexts],
          c \in [Invocations -> ConcurrentSizes] }

ConcurrentInput ==
    [op |-> "concurrent", text |-> <<>>, min_chunk_size |-> 0, max_chunk_size |-> 0,
     chunk_size |-> 0, overlap |-> 0]

Inputs ==
    {ConcurrentInput, ChatInput, IngestInput, HealthInput}
    \cup {SemanticInput(t, c[1], c[2]) : t \in LabelledTexts, c \in SemanticSizes}
    \cup {Semantic2Input(t, c[1], c[2]) : t \in InputTexts2, c \in SemanticSizes}
    \cup {ChunkTextInput(t) : t \in ChunkTextTexts}
    \cup {CleanInput(t) : t \in CleanTexts}
    \cup {EnrichInput(t) : t \in EnrichSpans \cup {CourseSpan}}
    \cup {FallbackInput(t, c[1], c[2]) : t \in LabelledTexts \ {CourseSpan},
                                         c \in FallbackSizes}
    \cup {ExtractInput(t) : t \in InfoSpans \cup {CourseSpan}}
    \cup
    {SemanticInput(t, c[1], c[2]) : t \in InputTexts \cup BlankTexts, c \in SemanticSizes}
    \cup {SemanticInput(ObjectivesText, 5, DefaultMaxChunkSize),
          SemanticInput(RepeatedText(2000), DefaultMinChunkSize, DefaultMaxChunkSize)}
    \cup {FallbackInput(t, c[1], c[2]) : t \in InputTexts \cup BlankTexts, c \in FallbackSizes}
    \cup {FallbackInput(RepeatedText(1200), DefaultChunkSize, DefaultOverlap)}
    \cup {ClassifyInput(t) : t \in Spans}

Init ==
    \E inp \in Inputs :
        /\ op = inp.op
        /\ raw_text = inp.text
        /\ text = inp.text
        /\ min_chunk_size = inp.min_chunk_size
        /\ max_chunk_size = inp.max_chunk_size
        /\ chunk_size = inp.chunk_size
        /\ overlap = inp.overlap
        /\ pc = "call"
        /\ sections = <<>>
        /\ i = 0
        /\ current_chunk = <<>>
        /\ current_section_header = <<>>
        /\ chunk_count = 0
        /\ chunks = IF inp.op = "enrich" THEN <<MakeChunk(inp.text, <<>>, 0)>> ELSE <<>>
        /\ start = 0
        /\ text_length = 0
        /\ window_starts = <<>>
        /\ label = ""
        /\ info = <<>>
        /\ first_pass = <<>>
        /\ calls \in (IF inp.op = "concurrent" THEN ConcurrentCalls ELSE {<<>>})
        /\ matches \in (IF inp.op = "chat" THEN MatchLists ELSE {<<>>})
        /\ filtered_matches = <<>>
        /\ sources = <<>>
        /\ confidence = ""
        /\ answer = ""
        /\ llm_calls = 0
        /\ authorization \in (IF inp.op = "ingest" THEN Authorizations ELSE {<<>>})
        /\ request \in (IF inp.op = "ingest" THEN Requests ELSE {<<>>})
        /\ steps = <<>>
        /\ metadata_list = <<>>
        /\ upserted = <<>>
        /\ response = <<>>
        /\ status_code = 0
        /\ pinecone_up \in (IF inp.op = "health" THEN BOOLEAN ELSE {FALSE})
        /\ openai_up \in (IF inp.op = "health" THEN BOOLEAN ELSE {FALSE})
        /\ pinecone_svc \in (IF inp.op = "health" THEN CachedServices ELSE {""})
        /\ embedding_svc \in (IF inp.op = "health" THEN CachedServices ELSE {""})
        /\ pinecone_ok = FALSE
        /\ openai_ok = FALSE

Next ==
    \/ SemanticCall
    \/ SkipBlankSegment
    \/ HeaderFinalize
    \/ HeaderDefer
    \/ HeaderFresh
    \/ BodySegment
    \/ FinishLastChunk
    \/ FinishMerge
    \/ FinishNoChunk
    \/ FallbackCall
    \/ FallbackWindow
    \/ FallbackReturn
    \/ ClassifyCall
    \/ ExtractCall
    \/ EnrichCall
    \/ CleanCall
    \/ CleanAgain
    \/ SemanticCall2
    \/ ChunkTextCall
    \/ SkipBlankSegment2
    \/ HeaderFinalize2
    \/ HeaderDiscard2
    \/ BodySegment2
    \/ FinishLastChunk2
    \/ FinishDrop2
    \/ ConcurrentStep
    \/ ChatQueryRaises
    \/ ChatFilter
    \/ ChatNoMatch
    \/ ChatBuildContext
    \/ ChatGenerate
    \/ ChatGenerateRaises
    \/ ChatReturn
    \/ IngestUnauthorized
    \/ IngestForbidden
    \/ IngestAuthorized
    \/ IngestFetch
    \/ IngestExtract
    \/ IngestChunk
    \/ IngestEmbed
    \/ IngestUpsert
    \/ HealthCheckPinecone
    \/ HealthCheckOpenAI
    \/ HealthReturn

Spec == Init /\ [][Next]_vars

---------------------------------------------------------------------------
(* Properties of the semantic chunker                                      *)

SemanticReturned == op = "semantic" /\ pc = "done"

\* C1: the chunk_num of the chunks of the semantic chunker are 0, 1, ..., n-1
\* in list order: the chunk_num of a chunk is its position in the list.
C1_SequenceIndices ==
    op = "semantic" => \A k \in 1..Len(chunks) : chunks[k].chunk_num = k - 1

\* a returned list of two chunks or more, the first finalized at a header
C1_Witness ==
    /\ SemanticReturned
    /\ Len(chunks) >= 2
    /\ \E k \in 1..Len(sections) : is_header(sections[k])

\* C2: the size of every chunk of the semantic chunker is the length of its
\* text, also after the last accumulator was merged into the last chunk.
C2_SizeIsTextLength ==
    op = "semantic" => \A k \in 1..Len(chunks) : chunks[k].size = Len(chunks[k].text)

\* text.split('\n'), from p on
RECURSIVE SplitLines(_, _)
SplitLines(s, p) ==
    LET n == LineEnd(s, p)
    IN  IF n > Len(s) THEN <<SubSeq(s, p, Len(s))>>
        ELSE <<SubSeq(s, p, n - 1)>> \o SplitLines(s, n + 1)

\* the lines of s that are not blank, trimmed
ContentLines(s) ==
    LET ls == SplitLines(s, 1)
    IN  {Strip(ls[k]) : k \in {j \in 1..Len(ls) : Strip(ls[j]) # <<>>}}

\* C3: for a non-empty input every line of the normalized text that is not
\* blank, a header line or a body line, is part of the text of a returned chunk.
C3_NoContentLost ==
    (SemanticReturned /\ Strip(raw_text) # <<>>) =>
        \A line \in ContentLines(text) :
            \E k \in 1..Len(chunks) : Contains(chunks[k].text, line)

\* C4: the text of every chunk of the semantic chunker is non-empty after
\* trimming, in every state of the walk.
C4_NoEmptyChunk ==
    op = "semantic" => \A k \in 1..Len(chunks) : Strip(chunks[k].text) # <<>>

\* a returned chunk of a text whose first segment is a header that is
\* followed at once by a second header
C4_Witness ==
    /\ SemanticReturned
    /\ Len(chunks) >= 1
    /\ Len(sections) >= 4
    /\ Strip(sections[1]) = <<>>
    /\ is_header(sections[2])
    /\ Strip(sections[3]) = <<>>
    /\ is_header(sections[4])

ObjectivesReturned ==
    /\ SemanticReturned
    /\ raw_text = ObjectivesText
    /\ min_chunk_size = 5
    /\ max_chunk_size = DefaultMaxChunkSize

ObjectivesHeader == SubSeq(ObjectivesText, 1, 20)

EvaluationHeader == SubSeq(ObjectivesText, 40, 52)

RepeatedReturned ==
    /\ SemanticReturned
    /\ raw_text = RepeatedText(2000)
    /\ min_chunk_size = DefaultMinChunkSize
    /\ max_chunk_size = DefaultMaxChunkSize

\* C6: 2000 repeated characters with min 250 and max 1000 give two chunks or
\* more, none empty, each of about max_chunk_size characters at most (a tenth
\* more is let through), numbered from 0 without a gap.
C6_RepeatedScenario ==
    RepeatedReturned =>
        /\ Len(chunks) >= 2
        /\ \A k \in 1..Len(chunks) :
            /\ Strip(chunks[k].text) # <<>>
            /\ 10 * Len(chunks[k].text) <= 11 * max_chunk_size
            /\ chunks[k].chunk_num = k - 1

---------------------------------------------------------------------------
(* Properties of the fallback chunker                                      *)

\* C7: called with chunk_size <= overlap the fallback chunker fails fast: it
\* runs no iteration of its loop and builds no chunk.
C7_InvalidConfigurationFailsFast ==
    (op = "fallback" /\ chunk_size <= overlap) =>
        /\ window_starts = <<>>
        /\ chunks = <<>>
        /\ ~(pc = "loop" /\ start < text_length)

\* the k-th window of the normalized text for a stride of chunk_size - overlap
WindowAt(k) ==
    LET from == (k - 1) * (chunk_size - overlap)
    IN  SubSeq(text, from + 1, Smaller(from + chunk_size, Len(text)))

IsNotBlank(w) == Strip(w) # <<>>

\* C8: for overlap < chunk_size the k-th iteration of the fallback chunker
\* starts at offset (k-1)*(chunk_size-overlap) and takes chunk_size characters
\* from there (up to the end of the text), the chunks are the windows that are
\* not blank, in order; the loop ends: start grows by the stride at each
\* iteration and never passes the end of the text by a stride or more; 1200
\* characters with chunk_size 500 and overlap 100 give 3 chunks, from the
\* offsets 0, 400 and 800.
C8_FallbackWindows ==
    (op = "fallback" /\ pc # "call" /\ overlap < chunk_size) =>
        LET stride  == chunk_size - overlap
            n       == Len(window_starts)
            windows == SelectSeq([k \in 1..n |-> WindowAt(k)], IsNotBlank)
        IN  /\ \A k \in 1..n : window_starts[k] = (k - 1) * stride
            /\ start = n * stride
            /\ start < text_length + stride
            /\ n < MaxWindows
            /\ pc = "done" => start >= text_length
            /\ Len(chunks) = Len(windows)
            /\ \A k \in 1..Len(chunks) :
                /\ chunks[k].text = Strip(windows[k])
                /\ chunks[k].chunk_num = k - 1
            /\ ( /\ pc = "done"
                 /\ raw_text = RepeatedText(1200)
                 /\ chunk_size = DefaultChunkSize
                 /\ overlap = DefaultOverlap )
               => /\ window_starts = <<0, 400, 800>>
                  /\ Len(chunks) = 3
                  /\ chunks[1].text = RepeatedText(500)
                  /\ chunks[2].text = RepeatedText(500)
                  /\ chunks[3].text = RepeatedText(400)

\* the 1200 characters were chunked, and the call returned
C8_Witness ==
    /\ op = "fallback"
    /\ pc = "done"
    /\ raw_text = RepeatedText(1200)
    /\ Len(chunks) = 3

\* C9: for the empty string and for an input of whitespace only the semantic
\* and the fallback chunker build no chunk and return the empty list: the
\* normalized text is empty, the walk meets no segment with content and the
\* window loop does not iterate.
C9_BlankInputNoChunk ==
    (op \in {"semantic", "fallback"} /\ Strip(raw_text) = <<>>) =>
        /\ chunks = <<>>
        /\ pc # "call" => text = <<>>
        /\ (op = "semantic" /\ pc = "loop") =>
                \A k \in 1..Len(sections) : Strip(sections[k]) = <<>>
        /\ (op = "fallback" /\ pc = "loop") => start >= text_length

\* a chunker returned on an input of whitespace that is not empty
C9_Witness ==
    /\ op \in {"semantic", "fallback"}
    /\ pc = "done"
    /\ Len(raw_text) > 1
    /\ Strip(raw_text) = <<>>
    /\ chunks = <<>>

---------------------------------------------------------------------------
(* Properties of the classifier                                            *)

\* the labels in the order of their tests
SectionTypes ==
    << "table", "course_header", "syllabus", "objectives", "references",
       "evaluation", "prerequisites", "schedule", "credits_info", "general" >>

\* the cue of the r-th label in a span
HasCue(r, s) ==
    CASE r = 1 -> HasTableCue(s)
      [] r = 2 -> ContainsAny(Lower(s), CourseHeaderWords)
      [] r = 3 -> ContainsAny(Lower(s), SyllabusWords)
      [] r = 4 -> ContainsAny(Lower(s), ObjectivesWords)
      [] r = 5 -> ContainsAny(Lower(s), ReferencesWords)
      [] r = 6 -> ContainsAny(Lower(s), EvaluationWords)
      [] r = 7 -> ContainsAny(Lower(s), PrerequisiteWords)
      [] r = 8 -> HasDate(s)
      [] r = 9 -> HasCreditsCue(Lower(s))
      [] r = 10 -> TRUE

EvaluationWord == <<"e", "v", "a", "l", "u", "a", "t", "i", "o", "n">>

\* C10: detect_section_type returns one label of the closed set, the first
\* in the order table, course_header, syllabus, objectives, references,
\* evaluation, prerequisites, schedule, credits_info, general whose cue the
\* span holds; a span with a table cue and the word "evaluation" is a table.
C10_FirstMatchWins ==
    (op = "classify" /\ pc = "done") =>
        /\ \E r \in 1..Len(SectionTypes) :
            /\ label = SectionTypes[r]
            /\ HasCue(r, text)
            /\ \A q \in 1..(r - 1) : ~HasCue(q, text)
        /\ (HasTableCue(text) /\ Contains(Lower(text), EvaluationWord))
                => label = "table"

\* a span with a table cue and the word "evaluation" was classified
C10_Witness ==
    /\ op = "classify"
    /\ pc = "done"
    /\ HasTableCue(text)
    /\ Contains(Lower(text), EvaluationWord)
    /\ label = "table"

---------------------------------------------------------------------------
(* Properties of the field extractor                                       *)

\* no key of the dict d has the empty string as its value
NoEmptyValue(d) == \A key \in DOMAIN d : d[key] # <<>>

\* C11: every key of the dict extract_subject_info returns for a span has a
\* non-empty string as its value, and so has every key of the metadata of
\* every chunk of the semantic and of the fallback chunker: a field that is
\* not found is left out, never stored as the empty string.
C11_NoEmptyField ==
    /\ (op = "extract" /\ pc = "done") => NoEmptyValue(info)
    /\ op \in {"semantic", "fallback"} =>
            \A k \in 1..Len(chunks) : NoEmptyValue(chunks[k].metadata)

\* the entry of key in the dict d is the string v
HasField(d, key, v) == key \in DOMAIN d /\ d[key] = v

\* the fields of the metadata example
IsCourseMetadata(d) ==
    /\ HasField(d, "course_code", <<"C", "O", "M", "2", "2", "4", "0", "0", "1">>)
    /\ HasField(d, "course_name",
                <<"D", "e", "e", "p", " ", "L", "e", "a", "r", "n", "i", "n", "g">>)
    /\ HasField(d, "credits", <<"4">>)
    /\ HasField(d, "semester", <<"v", "i", "i">>)

\* C12: for the span "COM224001: Deep Learning\nCredits: 4\nSemester: VII\n
\* Unit I - Intro\n..." the metadata has course_code "COM224001", course_name
\* "Deep Learning", credits "4" and semester "vii": the dict that
\* extract_subject_info returns, the metadata of the chunk the semantic
\* chunker builds of the span, and that metadata after enrich_chunk_metadata.
C12_CourseSpanMetadata ==
    /\ (op = "extract" /\ pc = "done" /\ text = CourseSpan) => IsCourseMetadata(info)
    /\ (op = "semantic" /\ pc = "done" /\ raw_text = CourseSpan /\ Len(chunks) = 1)
            => IsCourseMetadata(chunks[1].metadata)
    /\ (op = "enrich" /\ pc = "done" /\ raw_text = CourseSpan)
            => IsCourseMetadata(chunks[1].metadata)

---------------------------------------------------------------------------
(* Properties of the normalizer                                            *)

\* C13: clean_text is idempotent: called on the text it returned, it returns
\* that text unchanged, also for texts that mix page-number lines, lines of
\* dashes, runs of blank lines and table rows.
C13_CleanTextIdempotent ==
    (op = "clean" /\ pc = "done") => text = first_pass

---------------------------------------------------------------------------
(* Properties of the entry point chunk_text(text, use_semantic=True)       *)

\* the sequence s ends with the sequence w
EndsWith(s, w) ==
    Len(w) <= Len(s) /\ SubSeq(s, Len(s) - Len(w) + 1, Len(s)) = w

\* C14: when chunk_text(text, use_semantic=True) returns and the last
\* accumulator is not blank, is shorter than the minimum size and a chunk
\* exists, the text of the accumulator was appended to the last chunk: the
\* text of the last chunk ends with it.
C14_TrailingAccumulatorMerged ==
    ( /\ op = "chunk_text"
      /\ pc = "done"
      /\ Strip(current_chunk) # <<>>
      /\ Len(current_chunk) < min_chunk_size
      /\ Len(chunks) > 0 )
        => EndsWith(chunks[Len(chunks)].text, Strip(current_chunk))

---------------------------------------------------------------------------
\* C15: in the semantic chunker (lines 152-173), a step taken at a header
\* segment while the accumulator is non-empty after trimming and shorter
\* than min_chunk_size emits no chunk: the chunk list, the counter and the
\* header in force keep their values, the trimmed header and a newline are
\* put in front of the accumulator, whose content is kept, and the walk
\* goes on with the next segment.
SmallAccumulatorAtHeader ==
    /\ InWalk
    /\ Strip(sections[i]) # <<>>
    /\ is_header(sections[i])
    /\ Strip(current_chunk) # <<>>
    /\ Len(current_chunk) < min_chunk_size

C15_DeferKeepsOutput ==
    [][SmallAccumulatorAtHeader =>
          /\ chunks' = chunks
          /\ chunk_count' = chunk_count
          /\ current_section_header' = current_section_header
          /\ current_chunk' = Strip(sections[i]) \o <<"\n">> \o current_chunk
          /\ i' = i + 1
          /\ pc' = "loop"]_vars

\* a header has just been deferred after a chunk was emitted under an
\* earlier header: the accumulator starts with the deferred header, which
\* is not the one in force
C15_Witness ==
    /\ op = "semantic"
    /\ pc = "loop"
    /\ i > 1
    /\ Strip(sections[i - 1]) # <<>>
    /\ is_header(sections[i - 1])
    /\ Len(chunks) > 0
    /\ current_section_header # <<>>
    /\ Len(current_chunk) > Len(Strip(sections[i - 1])) + 1
    /\ SubSeq(current_chunk, 1, Len(Strip(sections[i - 1])) + 1)
           = Strip(sections[i - 1]) \o <<"\n">>

---------------------------------------------------------------------------
\* C16: in the semantic chunker (lines 152-173), a step taken at a header
\* segment while the accumulator's size is at least min_chunk_size appends
\* exactly one chunk, whose text is the trimmed accumulator and whose
\* section is the header in force before the segment ("general" when there
\* was none); after the step the accumulator is empty and the segment's
\* header is the one in force.
OneChunkFinalized ==
    /\ Len(chunks') = Len(chunks) + 1
    /\ SubSeq(chunks', 1, Len(chunks)) = chunks
    /\ chunks'[Len(chunks')].text = Strip(current_chunk)
    /\ chunks'[Len(chunks')].section =
           (IF current_section_header # <<>> THEN current_section_header
            ELSE General)
    /\ current_chunk' = <<>>
    /\ current_section_header' = Strip(sections[i])

C16_HeaderFinalizes ==
    [][(/\ InWalk
        /\ Strip(sections[i]) # <<>>
        /\ is_header(sections[i])
        /\ Len(current_chunk) >= min_chunk_size) => OneChunkFinalized]_vars

\* C16 amended: the same, for an accumulator that is also non-empty after
\* trimming (the other half of the test of line 154).
C16_HeaderFinalizesAmended ==
    [][(/\ InWalk
        /\ Strip(sections[i]) # <<>>
        /\ is_header(sections[i])
        /\ Strip(current_chunk) # <<>>
        /\ Len(current_chunk) >= min_chunk_size) => OneChunkFinalized]_vars

\* a header has just finalized an accumulator that was gathered under an
\* earlier header: the last chunk carries the earlier header, the
\* accumulator is empty and the header in force is another one
C16_Witness ==
    /\ op = "semantic"
    /\ pc = "loop"
    /\ i > 1
    /\ Strip(sections[i - 1]) # <<>>
    /\ is_header(sections[i - 1])
    /\ current_chunk = <<>>
    /\ current_section_header = Strip(sections[i - 1])
    /\ Len(chunks) > 0
    /\ chunks[Len(chunks)].chunk_num = chunk_count - 1
    /\ chunks[Len(chunks)].section # General
    /\ chunks[Len(chunks)].section # current_section_header

---------------------------------------------------------------------------
\* C17: every chunk returned by the semantic chunker (lines 111-223), other
\* than the last chunk of the output (which is also the one a trailing
\* merge enlarges), has a text of at most max_chunk_size characters.
C17_ChunkWithinMaximum ==
    (op = "semantic" /\ pc = "done") =>
        \A k \in 1..(Len(chunks) - 1) : Len(chunks[k].text) <= max_chunk_size

---------------------------------------------------------------------------
\* C18: every chunk returned by the semantic chunker (lines 111-223), other
\* than the last chunk of the output, has a text of at least
\* min_chunk_size characters.
C18_ChunkMeetsMinimum ==
    (op = "semantic" /\ pc = "done") =>
        \A k \in 1..(Len(chunks) - 1) : Len(chunks[k].text) >= min_chunk_size

---------------------------------------------------------------------------
\* C19: for an input without a header match whose normalized text is not
\* empty, the semantic chunker (lines 111-223) returns exactly one chunk
\* holding that text when the text is shorter than min_chunk_size, and
\* exactly one chunk covering the whole text when its length is between
\* min_chunk_size and max_chunk_size.
NoHeaderMatch == \A k \in 1..Len(sections) : ~is_header(sections[k])

SoleChunkReturned == Len(chunks) = 1 /\ chunks[1].text = text

ShortTextSoleChunk ==
    (/\ op = "semantic" /\ pc = "done"
     /\ NoHeaderMatch
     /\ text # <<>>
     /\ Len(text) < min_chunk_size) => SoleChunkReturned

FittingTextSoleChunk ==
    (/\ op = "semantic" /\ pc = "done"
     /\ NoHeaderMatch
     /\ text # <<>>
     /\ Len(text) >= min_chunk_size
     /\ Len(text) <= max_chunk_size) => SoleChunkReturned

C19_NoHeaderSingleChunk == ShortTextSoleChunk /\ FittingTextSoleChunk

---------------------------------------------------------------------------
\* C20: the section of every chunk returned by the semantic chunker (lines
\* 111-223) is "general" or the trimmed text of a header segment of the
\* input, and it is the header in whose scope the chunk's content fell:
\* the last chunk, when it is made of the last accumulator, holds the last
\* body segment of the input, so its section is the nearest header before
\* that segment, and "general" exactly when there is none, also when
\* headers were deferred on the way.
HeaderSegments ==
    {k \in 1..Len(sections) : Strip(sections[k]) # <<>> /\ is_header(sections[k])}

BodySegments ==
    {k \in 1..Len(sections) : Strip(sections[k]) # <<>> /\ ~is_header(sections[k])}

ScopeHeader(b) ==
    LET before == {h \in HeaderSegments : h < b}
    IN  IF before = {} THEN General
        ELSE Strip(sections[MaxOf(before)])

LastBodySegment == MaxOf(BodySegments)

C20_SectionIsScopeHeader ==
    (op = "semantic" /\ pc = "done") =>
        /\ \A k \in 1..Len(chunks) :
               chunks[k].section \in
                   {General} \cup {Strip(sections[h]) : h \in HeaderSegments}
        /\ (MeetsMinimum(current_chunk, min_chunk_size) /\ BodySegments # {}) =>
               chunks[Len(chunks)].section = ScopeHeader(LastBodySegment)

---------------------------------------------------------------------------
\* C21: when a body segment takes the accumulator past max_chunk_size and
\* it is split at "\n\n" (lines 178-204), no paragraph is dropped,
\* duplicated or reordered: the non-blank paragraphs, trimmed, of the texts
\* of the chunks flushed by the split, followed by those of the remainder
\* that becomes the accumulator, are the non-blank paragraphs, trimmed, of
\* the accumulator that was split, in the same order.
RECURSIVE TrimmedParagraphs(_, _)
TrimmedParagraphs(paragraphs, k) ==
    IF k > Len(paragraphs) THEN <<>>
    ELSE (IF Strip(paragraphs[k]) # <<>> THEN <<Strip(paragraphs[k])>> ELSE <<>>)
         \o TrimmedParagraphs(paragraphs, k + 1)

ParagraphsOf(s) == TrimmedParagraphs(SplitParagraphs(s, 1), 1)

RECURSIVE ParagraphsOfChunks(_, _)
ParagraphsOfChunks(cs, k) ==
    IF k > Len(cs) THEN <<>>
    ELSE ParagraphsOf(cs[k].text) \o ParagraphsOfChunks(cs, k + 1)

OversizedBodyStep ==
    /\ InWalk
    /\ Strip(sections[i]) # <<>>
    /\ ~is_header(sections[i])
    /\ Len(current_chunk) + 1 + Len(sections[i]) > max_chunk_size

C21_SplitKeepsParagraphs ==
    [][OversizedBodyStep =>
          /\ Len(chunks') >= Len(chunks)
          /\ SubSeq(chunks', 1, Len(chunks)) = chunks
          /\ ParagraphsOfChunks(chunks', Len(chunks) + 1) \o ParagraphsOf(current_chunk')
                 = ParagraphsOf(current_chunk \o <<"\n">> \o sections[i])]_vars

\* a split has just flushed a chunk and left a remainder: no header was met
\* so far, so every chunk comes from a flush of the split
C21_Witness ==
    /\ op = "semantic"
    /\ pc = "loop"
    /\ i > 1
    /\ \A k \in 1..(i - 1) : ~is_header(sections[k])
    /\ Len(chunks) >= 1
    /\ Strip(current_chunk) # <<>>
    /\ Len(ParagraphsOfChunks(chunks, 1) \o ParagraphsOf(current_chunk)) >= 2

---------------------------------------------------------------------------
\* C22: a span that contains a vertical bar or one of the box-drawing
\* characters, that is, a span the normalizer keeps unmodified as a table
\* line (line 24), is classified as "table" by detect_section_type.
C22_TableLineIsTable ==
    (op = "classify" /\ pc = "done" /\ IsTableLine(text)) => label = "table"

---------------------------------------------------------------------------
---------------------------------------------------------------------------
\* C24: when no match the query returned has a score of at least 0.35,
\* answer_question returns the fixed answer, no source and the confidence
\* "low", and the completion is never requested; the completion is
\* requested only when a match passed the threshold.
SomeMatchPasses == \E k \in 1..Len(matches) : matches[k].score >= MIN_SCORE_THRESHOLD

C24_NoMatchNoGeneration ==
    op = "chat" =>
        /\ (pc = "done" /\ ~SomeMatchPasses) =>
               /\ answer = NotCovered
               /\ sources = <<>>
               /\ confidence = "low"
               /\ llm_calls = 0
        /\ (pc \notin {"call", "raised"} /\ ~SomeMatchPasses) => llm_calls = 0
        /\ llm_calls > 0 => SomeMatchPasses

\* the query returned matches, all under the threshold, and the call
\* returned
C24_Witness ==
    /\ op = "chat"
    /\ pc = "done"
    /\ Len(matches) >= 2
    /\ ~SomeMatchPasses
    /\ answer = NotCovered

---------------------------------------------------------------------------
\* C25: the sources answer_question returns are at most 3, in
\* non-increasing order of score, each of a match whose score is at least
\* 0.35, and they are the highest-scoring of the matches that passed the
\* threshold: no such match that was left out has a score higher than the
\* score of the match of a returned source.
Returned == {sources[k].chunk_index : k \in 1..Len(sources)}

SourcesWellFormed ==
    /\ filtered_matches = SelectSeq(matches, PassesThreshold)
    /\ Len(sources) <= 3
    /\ Len(sources) = Cardinality(Returned)
    /\ \A k \in 1..(Len(sources) - 1) : sources[k].score >= sources[k + 1].score
    /\ \A k \in 1..Len(sources) :
           /\ sources[k].chunk_index \in 1..Len(filtered_matches)
           /\ filtered_matches[sources[k].chunk_index].score >= MIN_SCORE_THRESHOLD
           /\ sources[k].score = Round3(filtered_matches[sources[k].chunk_index].score)

---------------------------------------------------------------------------
\* C26: when answer_question returns a generated answer, the confidence is
\* "high" exactly when the top score of the matches that passed the
\* threshold is at least 0.6, "medium" exactly when it is at least 0.4 and
\* under 0.6, and "low" exactly when it is under 0.4; and a returned
\* confidence of "high" or "medium" never comes with an empty sources list.
PassingScores ==
    {matches[k].score : k \in {n \in 1..Len(matches) :
                                  matches[n].score >= MIN_SCORE_THRESHOLD}}

C26_ConfidenceFromTopScore ==
    (op = "chat" /\ pc = "done") =>
        /\ llm_calls > 0 =>
               /\ PassingScores # {}
               /\ confidence = "high" <=> MaxOf(PassingScores) >= 6000
               /\ confidence = "medium" <=>
                      (MaxOf(PassingScores) >= 4000 /\ MaxOf(PassingScores) < 6000)
               /\ confidence = "low" <=>
                      (MaxOf(PassingScores) < 4000 /\ MaxOf(PassingScores) >= 3500)
        /\ confidence \in {"high", "medium"} => sources # <<>>

\* an answer was generated and the top score is just under 0.4: the source
\* shows the rounded score 0.4 and the confidence is "low"
C26_Witness ==
    /\ op = "chat"
    /\ pc = "done"
    /\ llm_calls > 0
    /\ MaxOf(PassingScores \cup {0}) = 3996
    /\ confidence = "low"
    /\ sources # <<>>
    /\ sources[1].score = 4000

---------------------------------------------------------------------------
(* POST /ingest: the claims about the pipeline                             *)

\* the docstring of ingest_syllabus (lines 57-62) and lines 70-117
PipelineSteps == <<"fetch", "extract", "chunk", "embed", "upsert">>

\* the last step that ran raised
LastStepFailed == steps # <<>> /\ ~steps[Len(steps)].ok

\* C27: the steps of an ingestion run in the order fetch, extract, chunk,
\* embed, upsert; a step that fails is the last one to run and the request
\* is answered 500; when chunking gives no chunk the embedding and the
\* upsert are not made and the answer is 500; an answer of 200 comes after
\* the five steps and reports chunks_processed = the number of chunks
C27_PipelineOrder ==
    op = "ingest" =>
        /\ Len(steps) <= Len(PipelineSteps)
        /\ \A k \in 1..Len(steps) : steps[k].step = PipelineSteps[k]
        /\ \A k \in 1..(Len(steps) - 1) : steps[k].ok
        /\ LastStepFailed => (pc = "done" /\ status_code = 500 /\ upserted = <<>>)
        /\ (Len(steps) >= 3 /\ steps[3].ok /\ chunks = <<>>)
              => /\ Len(steps) = 3
                 /\ pc = "done"
                 /\ status_code = 500
                 /\ metadata_list = <<>>
                 /\ upserted = <<>>
        /\ status_code = 200
              => /\ Len(steps) = Len(PipelineSteps)
                 /\ steps[Len(steps)].ok
                 /\ chunks # <<>>
                 /\ response.success
                 /\ response.chunks_processed = Len(chunks)

\* C27 witness: chunking returned an empty list, and the request ended
\* with 500 after three steps
C27_Witness ==
    /\ op = "ingest"
    /\ pc = "done"
    /\ Len(steps) = 3
    /\ steps[3].ok
    /\ chunks = <<>>
    /\ status_code = 500

\* the part of a vector id before its suffix
IdPrefix == request.dept \o <<"-">> \o request.year \o <<"-">>

\* C28: every vector upserted by an ingestion carries the request's dept
\* and year in its metadata, has the id <dept>-<year>-<suffix> with a
\* suffix of its own, and keeps the eight base keys as lines 96-105 set
\* them: the extracted metadata merged in are found under their own keys
C28_StoredMetadata ==
    op = "ingest" =>
        /\ Len(upserted) \in {0, Len(chunks)}
        /\ \A k \in 1..Len(upserted) :
              LET v == upserted[k]
              IN  /\ v.metadata["dept"] = request.dept
                  /\ v.metadata["year"] = request.year
                  /\ StartsWithAt(v.id, 1, IdPrefix)
                  /\ Len(v.id) > Len(IdPrefix)
                  /\ \A j \in 1..Len(upserted) : j # k => upserted[j].id # v.id
                  /\ \A key \in BaseKeys :
                        v.metadata[key] = BaseMetadata(chunks[k])[key]
                  /\ \A key \in DOMAIN chunks[k].metadata :
                        v.metadata[key] = chunks[k].metadata[key]
                  /\ DOMAIN v.metadata = BaseKeys \cup DOMAIN chunks[k].metadata

\* C28 witness: vectors were upserted, and the chunk of one of them had
\* extracted metadata (a semester among them) merged into its base metadata
C28_Witness ==
    /\ op = "ingest"
    /\ status_code = 200
    /\ Len(upserted) >= 2
    /\ \E k \in 1..Len(upserted) :
          /\ "semester" \in DOMAIN chunks[k].metadata
          /\ "semester" \in DOMAIN upserted[k].metadata
          /\ upserted[k].metadata["year"] = request.year

\* the header is present and starts with "Bearer "
HasBearerPrefix ==
    IF authorization = <<>> THEN FALSE
    ELSE StartsWithAt(authorization[1], 1, BearerPrefix)

\* the header is exactly "Bearer " followed by the configured secret
ExactAdminHeader == authorization = <<BearerPrefix \o api_secret_key>>

---------------------------------------------------------------------------
(* GET /: the claim about the health check                                 *)

\* C30: the health check answers 200; the status is "healthy" exactly when
\* both collaborators are connected, "degraded" exactly when one is and
\* "unhealthy" exactly when neither is; a collaborator that cannot be
\* obtained counts as not connected; and when the vector store and the
\* embedding API are both down the status is "unhealthy"
C30_HealthStatus ==
    (op = "health" /\ pc = "done") =>
        /\ status_code = 200
        /\ response.pinecone_connected = is_connected(pinecone_svc)
        /\ response.openai_connected = is_connected(embedding_svc)
        /\ response.status = "healthy"
              <=> (response.pinecone_connected /\ response.openai_connected)
        /\ response.status = "degraded"
              <=> (response.pinecone_connected # response.openai_connected)
        /\ response.status = "unhealthy"
              <=> (~response.pinecone_connected /\ ~response.openai_connected)
        /\ (~pinecone_up /\ ~openai_up) => response.status = "unhealthy"

====
